---- MODULE Spec2Model ----
(***************************************************************************)
(* Hybrid retrieval and conversational memory of ragFin.                   *)
(*                                                                         *)
(*   Part A  the summary buffer memory (services/conversation.py) and the  *)
(*           endpoints that drive it (app/main.py), one handler at a time  *)
(*           (Spec), interleaved at the grain of one store command         *)
(*           (SpecConc, SpecRace), and with key lifetimes and damaged      *)
(*           summary records (SpecStore, SpecExpiry);                      *)
(*   Part B  the hybrid retriever (services/retriever.py) as a function of *)
(*           the query and of what the two search channels answer          *)
(*           (SpecRetrieve);                                               *)
(*   Part C  the follow-up classifier and the query rewriter               *)
(*           (services/conversation.py) on query strings (SpecRewrite).    *)
(*                                                                         *)
(* One session id is modelled: every store key is derived from the session *)
(* id, and the handlers touch the keys of their own session only.          *)
(***************************************************************************)
EXTENDS Integers, Sequences, FiniteSets, TLC

VARIABLES
    max_recent_turns,      \* SummaryBufferMemory.max_recent_turns (mutable, shared)
    max_total_tokens,      \* SummaryBufferMemory.max_total_tokens
    enable_summarization,  \* SummaryBufferMemory.enable_summarization
    llm_configured,        \* bool(settings.gemini_api_key)
    turns,                 \* the list stored under chat_session_v2:<id>
    summary,               \* the value stored under chat_summary_v2:<id>, or None
    store_up,              \* whether the session store answers
    added,                 \* add_turn calls on the session since it was created or cleared
    forced,                \* a force-summarize ran on the session since then
    last,                  \* what the last handler observed and answered
    pc,                    \* SpecConc, SpecRace: each worker's position
    loc,                   \* SpecConc, SpecRace: each worker's local variables
    overlapped,            \* SpecConc: two add_turn calls were in flight together
    rq,                    \* SpecRetrieve, SpecRewrite: the arguments of the call
    rs,                    \* SpecRetrieve, SpecRewrite: what the call computed and returned
    turns_ttl,             \* SpecStore, SpecExpiry: remaining lifetime of chat_session_v2:<id>
    summary_ttl,           \* SpecStore, SpecExpiry: remaining lifetime of chat_summary_v2:<id>
    idle                   \* SpecStore, SpecExpiry: time passed since the last add_turn

memvars  == <<max_recent_turns, max_total_tokens, enable_summarization,
              llm_configured, turns, summary, store_up, added, forced, last>>
concvars == <<pc, loc, overlapped>>
retvars  == <<rq, rs>>
keyvars  == <<turns_ttl, summary_ttl, idle>>
vars     == <<memvars, concvars, retvars, keyvars>>

\* The value of an absent key (Python None).  A stored summary is the
\* one-element sequence holding its record.
None == <<>>

-----------------------------------------------------------------------------
(* Bounds of the model.                                                    *)

MaxK == 2              \* max_recent_turns is drawn from 1..MaxK
MaxAdds == 4           \* add_turn calls in one behaviour of Spec
MaxTurnTokens == 2     \* a turn or a summary is short (1 token) or long (this many)
MaxTokenBudget == 2    \* max_total_tokens is 1 or this

TokenCounts  == {1, MaxTurnTokens}
TokenBudgets == {1, MaxTokenBudget}

Min(a, b) == IF a < b THEN a ELSE b
Max(a, b) == IF a > b THEN a ELSE b

-----------------------------------------------------------------------------
(* Part A.  The session store and the summary buffer memory.               *)

\* A ConversationTurn.  id stands for its content (user_query, ai_response,
\* timestamp): every add_turn builds a new turn with its own timestamp.
\* tok is ConversationTurn.get_token_count() of that content.
ConversationTurn(id, tok) == [id |-> id, tok |-> tok]

\* redis LRANGE key -limit -1: the last `limit` elements of the list.
LRange(list, limit) ==
    SubSeq(list, Max(1, Len(list) - limit + 1), Len(list))

\* A stored summary record that is not the JSON of a summary:
\*   "not_json"       json.loads raises JSONDecodeError
\*   "missing_key"    a JSON object without one of the three fields: KeyError
\*   "not_an_object"  a JSON value that is no object (null, a number, a list):
\*                    ConversationSummary.from_dict raises TypeError
CorruptKinds == {"not_json", "missing_key", "not_an_object"}

CorruptRecord(kind) == << [corrupt |-> kind] >>

IsCorrupt(sm) == sm # None /\ "corrupt" \in DOMAIN sm[1]

\* get_history: the exception of the summary's parse is not one of the two
\* that the except clause names, and leaves get_history.
ParseRaises(sm) == IsCorrupt(sm) /\ sm[1].corrupt = "not_an_object"

\* get_history: summary stays None when the parse raises one of the two.
ParseSummary(sm) == IF IsCorrupt(sm) THEN None ELSE sm

\* SummaryBufferMemory.get_history(session_id): (summary, recent_turns), with
\* limit defaulting to max_recent_turns * 2, when it returns.
get_history(sm, ts, k) == <<ParseSummary(sm), LRange(ts, k * 2)>>

\* _check_and_summarize: the token usage it computes and logs.
TotalTokens(sm, recent) ==
    LET RECURSIVE Sum(_)
        Sum(s) == IF s = <<>> THEN 0 ELSE Head(s).tok + Sum(Tail(s))
    IN  (IF sm # None THEN sm[1].tok ELSE 0) + Sum(recent)

\* A summarizer that waits for the token budget to be exceeded as well.
ShouldSummarize_NeedsTokens(sm, recent, k, budget) ==
    TotalTokens(sm, recent) > budget /\ Len(recent) > k

\* _check_and_summarize: the condition under which _perform_summarization runs.
ShouldSummarize(sm, recent, k, budget) ==
    LET should_summarize == \/ TotalTokens(sm, recent) > budget
                            \/ Len(recent) > k
    IN  should_summarize /\ Len(recent) > k

\* _perform_summarization: recent_turns[:-turns_to_keep] / recent_turns[-turns_to_keep:]
TurnsToSummarize(recent, k) ==
    IF Len(recent) > k THEN SubSeq(recent, 1, Len(recent) - k) ELSE <<>>

\* A split that keeps one turn too many (recent_turns[-(k+1):]).
TurnsToKeep_OneMore(recent, k) ==
    IF Len(recent) > k THEN SubSeq(recent, Len(recent) - k, Len(recent))
    ELSE recent

TurnsToKeep(recent, k) ==
    IF Len(recent) > k THEN SubSeq(recent, Len(recent) - k + 1, Len(recent))
    ELSE recent

TurnIds(s) == {s[i].id : i \in 1..Len(s)}

\* _create_summary.  The text is modelled by what it carries: the sequence of
\* the sets of turns condensed into it, oldest first.
\*   llm = "keeps"  the LLM answers, and its text carries the previous summary
\*   llm = "drops"  the LLM answers, and its text does not
\*   llm = "raises" _llm_summarize raises: the rule-based summarizer runs
\* The rule-based text starts with "Previous context: <existing text>".
LlmOutcomes == {"keeps", "drops", "raises"}

\* A rule-based summarizer without the "Previous context" part.
RuleBasedSummarize_Fresh(to_summarize, existing) == <<TurnIds(to_summarize)>>

RuleBasedSummarize(to_summarize, existing) ==
    (IF existing # None THEN existing[1].text ELSE <<>>) \o <<TurnIds(to_summarize)>>

\* _llm_summarize: conversation_text, the part of the prompt built from the
\* arguments ("Previous summary: <existing text>", then the turns), by what
\* it carries.
LlmConversationText(to_summarize, existing) ==
    (IF existing # None THEN existing[1].text ELSE <<>>) \o <<TurnIds(to_summarize)>>

\* A _create_summary whose failed LLM call leaves the previous text alone
\* instead of running the rule-based summarizer on the turns.
CreateSummary_NoFallback(to_summarize, existing, can_use_llm, llm) ==
    IF can_use_llm /\ llm = "keeps" THEN RuleBasedSummarize(to_summarize, existing)
    ELSE IF can_use_llm /\ llm = "drops" THEN <<TurnIds(to_summarize)>>
    ELSE IF can_use_llm /\ llm = "raises"
    THEN (IF existing # None THEN existing[1].text ELSE <<>>)
    ELSE RuleBasedSummarize(to_summarize, existing)

CreateSummary(to_summarize, existing, can_use_llm, llm) ==
    IF can_use_llm /\ llm = "keeps" THEN RuleBasedSummarize(to_summarize, existing)
    ELSE IF can_use_llm /\ llm = "drops" THEN <<TurnIds(to_summarize)>>
    ELSE RuleBasedSummarize(to_summarize, existing)

\* A turn count that restarts at every summarization.
TotalSummarizedTurns_Reset(to_summarize, existing) == Len(to_summarize)

\* _perform_summarization: total_summarized_turns.
TotalSummarizedTurns(to_summarize, existing) ==
    Len(to_summarize) + (IF existing # None THEN existing[1].turn_count ELSE 0)

\* _perform_summarization: the ConversationSummary it stores.  stok is the
\* token count of the new text.
NewSummary(to_summarize, existing, can_use_llm, llm, stok) ==
    << [ text            |-> CreateSummary(to_summarize, existing, can_use_llm, llm),
         turn_count      |-> TotalSummarizedTurns(to_summarize, existing),
         timestamp_range |-> <<to_summarize[1].id,
                               to_summarize[Len(to_summarize)].id>>,
         tok             |-> stok ] >>

\* _check_and_summarize followed by _perform_summarization, run to the end
\* with no other command in between: the store it leaves and what it logged.
CheckAndSummarize(sm, ts, k, budget, can_use_llm, llm, stok) ==
    LET h       == get_history(sm, ts, k)
        recent  == h[2]
        to_sum  == TurnsToSummarize(recent, k)
        perform == ShouldSummarize(h[1], recent, k, budget) /\ to_sum # <<>>
    IN  [ summary      |-> IF perform
                           THEN NewSummary(to_sum, h[1], can_use_llm, llm, stok)
                           ELSE sm,
          turns        |-> IF perform THEN TurnsToKeep(recent, k) ELSE ts,
          summarized   |-> perform,
          llm_input    |-> IF perform /\ can_use_llm
                           THEN LlmConversationText(to_sum, h[1]) ELSE None,
          total_tokens |-> TotalTokens(h[1], recent),
          count        |-> Len(recent) ]

\* SummaryBufferMemory.add_turn, run to the end with no other command in between.
add_turn(sm, ts, turn, k, budget, enabled, can_use_llm, llm, stok) ==
    LET pushed == Append(ts, turn)
    IN  IF enabled
        THEN CheckAndSummarize(sm, pushed, k, budget, can_use_llm, llm, stok)
        ELSE [ summary |-> sm, turns |-> pushed, summarized |-> FALSE,
               llm_input |-> None, total_tokens |-> 0, count |-> Len(pushed) ]

\* A clear that deletes the turn list and leaves the summary key.
clear_session_TurnsOnly(sm, ts) == [summary |-> sm, turns |-> <<>>]

\* SummaryBufferMemory.clear_session: the two keys after the two deletes.
clear_session(sm, ts) == [summary |-> None, turns |-> <<>>]

-----------------------------------------------------------------------------
(* The endpoints of app/main.py, one handler at a time.                    *)

NoOp == [op |-> "none"]

\* POST /rag/query/.  get_full_context is not guarded: an unreachable store
\* raises out of the handler, and so does a failure of retrieve or of
\* generate_answer.  tok is the token count of the new turn; llm and stok
\* are the summarizer's outcome and the token count of its text.
RagQueryStoreDown ==
    /\ added < MaxAdds
    /\ ~store_up
    /\ last' = [op |-> "rag_query", store_up |-> FALSE, outcome |-> "error",
                retrieved |-> FALSE, answered |-> FALSE]
    /\ UNCHANGED <<max_recent_turns, max_total_tokens, enable_summarization,
                   llm_configured, turns, summary, store_up, added, forced>>
    /\ UNCHANGED <<concvars, retvars, keyvars>>

RagQueryFails(retrieved) ==
    /\ added < MaxAdds
    /\ store_up
    /\ last' = [op |-> "rag_query", store_up |-> TRUE, outcome |-> "error",
                retrieved |-> retrieved, answered |-> FALSE]
    /\ UNCHANGED <<max_recent_turns, max_total_tokens, enable_summarization,
                   llm_configured, turns, summary, store_up, added, forced>>
    /\ UNCHANGED <<concvars, retvars, keyvars>>

RagQuery(tok, llm, stok) ==
    /\ added < MaxAdds
    /\ store_up
    /\ LET r == add_turn(summary, turns, ConversationTurn(added + 1, tok),
                         max_recent_turns, max_total_tokens,
                         enable_summarization, llm_configured, llm, stok)
       IN  /\ turns' = r.turns
           /\ summary' = r.summary
           /\ added' = added + 1
           /\ last' = [op |-> "rag_query", store_up |-> TRUE, outcome |-> "ok",
                       retrieved |-> TRUE, answered |-> TRUE,
                       summarized |-> r.summarized,
                       llm_raised |-> r.summarized /\ llm_configured /\ llm = "raises",
                       llm_input |-> r.llm_input,
                       total_tokens |-> r.total_tokens, count |-> r.count]
    /\ UNCHANGED <<max_recent_turns, max_total_tokens, enable_summarization,
                   llm_configured, store_up, forced>>
    /\ UNCHANGED <<concvars, retvars, keyvars>>

\* DELETE /conversation/history/{session_id}
ClearConversationHistory ==
    /\ IF ~store_up
       THEN /\ last' = [op |-> "clear", outcome |-> "error"]
            /\ UNCHANGED <<turns, summary, added, forced>>
       ELSE LET r == clear_session(summary, turns)
            IN  /\ turns' = r.turns
                /\ summary' = r.summary
                /\ added' = 0
                /\ forced' = FALSE
                /\ last' = [op |-> "clear", outcome |-> "ok",
                            had_summary |-> summary # None,
                            had_turns |-> Len(turns)]
    /\ UNCHANGED <<max_recent_turns, max_total_tokens, enable_summarization,
                   llm_configured, store_up>>
    /\ UNCHANGED <<concvars, retvars, keyvars>>

\* POST /conversation/force-summarize/{session_id}: the handler lowers the
\* shared max_recent_turns to 1, runs _check_and_summarize and restores it.
ForceSummarizeRefused ==
    /\ \/ ~store_up /\ last' = [op |-> "force", outcome |-> "error"]
       \/ /\ store_up
          /\ Len(get_history(summary, turns, max_recent_turns)[2]) < 2
          /\ last' = [op |-> "force", outcome |-> "not_enough"]
    /\ UNCHANGED <<max_recent_turns, max_total_tokens, enable_summarization,
                   llm_configured, turns, summary, store_up, added, forced>>
    /\ UNCHANGED <<concvars, retvars, keyvars>>

\* The store stops answering after the handler's first read: get_history
\* raises inside _check_and_summarize, and the line that restores
\* max_recent_turns is not reached.
ForceSummarizeStoreFails ==
    /\ store_up
    /\ Len(get_history(summary, turns, max_recent_turns)[2]) >= 2
    /\ max_recent_turns' = 1
    /\ store_up' = FALSE
    /\ forced' = TRUE
    /\ last' = [op |-> "force", outcome |-> "error"]
    /\ UNCHANGED <<max_total_tokens, enable_summarization, llm_configured,
                   turns, summary, added>>
    /\ UNCHANGED <<concvars, retvars, keyvars>>

ForceSummarize(llm, stok) ==
    /\ store_up
    /\ Len(get_history(summary, turns, max_recent_turns)[2]) >= 2
    /\ LET r == CheckAndSummarize(summary, turns, 1, max_total_tokens,
                                  llm_configured, llm, stok)
       IN  /\ turns' = r.turns
           /\ summary' = r.summary
           /\ forced' = TRUE
           /\ last' = [op |-> "force", outcome |-> "ok", summarized |-> r.summarized,
                       llm_raised |-> r.summarized /\ llm_configured /\ llm = "raises",
                       llm_input |-> r.llm_input]
    /\ UNCHANGED <<max_recent_turns, max_total_tokens, enable_summarization,
                   llm_configured, store_up, added>>
    /\ UNCHANGED <<concvars, retvars, keyvars>>

\* The session store becomes unreachable, or reachable again.
StoreFlip ==
    /\ store_up' = ~store_up
    /\ UNCHANGED <<max_recent_turns, max_total_tokens, enable_summarization,
                   llm_configured, turns, summary, added, forced, last>>
    /\ UNCHANGED <<concvars, retvars, keyvars>>

ConcIdle == /\ pc = <<>> /\ loc = <<>> /\ overlapped = "no"
RetIdle  == /\ rq = NoOp /\ rs = NoOp
KeyIdle  == /\ turns_ttl = 0 /\ summary_ttl = 0 /\ idle = 0

\* The state after the module is loaded: ConversationManager(...) built and an
\* empty store.  The constructor arguments are drawn from small sets.
Init ==
    /\ max_recent_turns \in 1..MaxK
    /\ max_total_tokens \in TokenBudgets
    /\ enable_summarization \in BOOLEAN
    /\ llm_configured \in BOOLEAN
    /\ turns = <<>>
    /\ summary = None
    /\ store_up = TRUE
    /\ added = 0
    /\ forced = FALSE
    /\ last = NoOp
    /\ ConcIdle
    /\ RetIdle
    /\ KeyIdle

Next ==
    \/ RagQueryStoreDown
    \/ \E retrieved \in BOOLEAN : RagQueryFails(retrieved)
    \/ \E tok \in TokenCounts, llm \in LlmOutcomes, stok \in TokenCounts :
          RagQuery(tok, llm, stok)
    \/ ClearConversationHistory
    \/ ForceSummarizeRefused
    \/ ForceSummarizeStoreFails
    \/ \E llm \in LlmOutcomes, stok \in TokenCounts : ForceSummarize(llm, stok)
    \/ StoreFlip

Spec == Init /\ [][Next]_vars

-----------------------------------------------------------------------------
(* add_turn interleaved: two workers serve requests for the same session,  *)
(* and each store command is one step (SpecConc).  The store executes one  *)
(* command at a time; nothing orders the commands of two calls.            *)

\* Two requests for the session are in flight, each served by its own worker.
Workers == {1, 2}

IdleLocals == [summ |-> None, recent |-> <<>>, keep |-> <<>>, new |-> None]

Summarizing == {"set_summary", "delete", "rpush_keep"}

\* add_turn: redis_client.rpush(turns_key, ...) of the new turn (the expire
\* that follows changes no modelled state and is part of this step).
AT_Rpush(w, tok) ==
    /\ pc[w] = "idle"
    /\ turns' = Append(turns, ConversationTurn(added + 1, tok))
    /\ added' = added + 1
    /\ pc' = [pc EXCEPT ![w] = IF enable_summarization THEN "get_summary" ELSE "done"]
    /\ overlapped' = IF /\ overlapped = "no"
                        /\ \E v \in Workers \ {w} : pc[v] \notin {"idle", "done"}
                     THEN "calls" ELSE overlapped
    /\ UNCHANGED <<max_recent_turns, max_total_tokens, enable_summarization,
                   llm_configured, summary, store_up, forced, last, loc>>
    /\ UNCHANGED <<retvars, keyvars>>

\* get_history: redis_client.get(summary_key)
AT_GetSummary(w) ==
    /\ pc[w] = "get_summary"
    /\ loc' = [loc EXCEPT ![w].summ = summary]
    /\ pc' = [pc EXCEPT ![w] = "lrange"]
    /\ UNCHANGED <<memvars, overlapped, retvars, keyvars>>

\* get_history: redis_client.lrange(turns_key, -limit, -1), then the decision
\* of _check_and_summarize and, when it summarizes, the split and the new
\* ConversationSummary of _perform_summarization (no store command).
AT_LRange(w, llm, stok) ==
    /\ pc[w] = "lrange"
    /\ LET recent == LRange(turns, max_recent_turns * 2)
           to_sum == TurnsToSummarize(recent, max_recent_turns)
           perform == /\ ShouldSummarize(loc[w].summ, recent, max_recent_turns,
                                         max_total_tokens)
                      /\ to_sum # <<>>
       IN  IF perform
           THEN /\ loc' = [loc EXCEPT ![w] =
                             [summ   |-> loc[w].summ,
                              recent |-> recent,
                              keep   |-> TurnsToKeep(recent, max_recent_turns),
                              new    |-> NewSummary(to_sum, loc[w].summ,
                                                    llm_configured, llm, stok)]]
                /\ pc' = [pc EXCEPT ![w] = "set_summary"]
                /\ overlapped' = IF \E v \in Workers \ {w} : pc[v] \in Summarizing
                                 THEN "summarizing" ELSE overlapped
           ELSE /\ loc' = [loc EXCEPT ![w] = IdleLocals]
                /\ pc' = [pc EXCEPT ![w] = "done"]
                /\ UNCHANGED overlapped
    /\ UNCHANGED <<memvars, retvars, keyvars>>

\* _perform_summarization: redis_client.set(summary_key, ...)
AT_SetSummary(w) ==
    /\ pc[w] = "set_summary"
    /\ summary' = loc[w].new
    /\ pc' = [pc EXCEPT ![w] = "delete"]
    /\ UNCHANGED <<max_recent_turns, max_total_tokens, enable_summarization,
                   llm_configured, turns, store_up, added, forced, last>>
    /\ UNCHANGED <<loc, overlapped, retvars, keyvars>>

\* _perform_summarization: redis_client.delete(turns_key)
AT_Delete(w) ==
    /\ pc[w] = "delete"
    /\ turns' = <<>>
    /\ pc' = [pc EXCEPT ![w] = "rpush_keep"]
    /\ UNCHANGED <<max_recent_turns, max_total_tokens, enable_summarization,
                   llm_configured, summary, store_up, added, forced, last>>
    /\ UNCHANGED <<loc, overlapped, retvars, keyvars>>

\* _perform_summarization: one redis_client.rpush of the loop over
\* turns_to_keep_raw (the closing expire is part of the last one).
AT_RpushKeep(w) ==
    /\ pc[w] = "rpush_keep"
    /\ turns' = Append(turns, Head(loc[w].keep))
    /\ IF Len(loc[w].keep) = 1
       THEN /\ loc' = [loc EXCEPT ![w] = IdleLocals]
            /\ pc' = [pc EXCEPT ![w] = "done"]
       ELSE /\ loc' = [loc EXCEPT ![w].keep = Tail(loc[w].keep)]
            /\ UNCHANGED pc
    /\ UNCHANGED <<max_recent_turns, max_total_tokens, enable_summarization,
                   llm_configured, summary, store_up, added, forced, last>>
    /\ UNCHANGED <<overlapped, retvars, keyvars>>

\* The session after n add_turn calls that ran one after the other.
RECURSIVE SeqAdds(_, _, _, _)
SeqAdds(n, k, budget, can_use_llm) ==
    IF n = 0 THEN [summary |-> None, turns |-> <<>>]
    ELSE LET prev == SeqAdds(n - 1, k, budget, can_use_llm)
             r    == add_turn(prev.summary, prev.turns, ConversationTurn(n, 1),
                              k, budget, TRUE, can_use_llm, "raises", 1)
         IN  [summary |-> r.summary, turns |-> r.turns]

\* The workers start idle on a session that earlier calls, one at a time,
\* have brought to any length.
InitConc ==
    /\ max_recent_turns \in 1..MaxK
    /\ max_total_tokens \in TokenBudgets
    /\ enable_summarization = TRUE
    /\ llm_configured \in BOOLEAN
    /\ added \in 0..MaxAdds
    /\ LET s == SeqAdds(added, max_recent_turns, max_total_tokens, llm_configured)
       IN  turns = s.turns /\ summary = s.summary
    /\ store_up = TRUE
    /\ forced = FALSE
    /\ last = NoOp
    /\ pc = [w \in Workers |-> "idle"]
    /\ loc = [w \in Workers |-> IdleLocals]
    /\ overlapped = "no"
    /\ RetIdle
    /\ KeyIdle

NextConc ==
    \E w \in Workers :
        \/ \E tok \in TokenCounts : AT_Rpush(w, tok)
        \/ AT_GetSummary(w)
        \/ \E llm \in LlmOutcomes, stok \in TokenCounts : AT_LRange(w, llm, stok)
        \/ AT_SetSummary(w)
        \/ AT_Delete(w)
        \/ AT_RpushKeep(w)

SpecConc == InitConc /\ [][NextConc]_vars

-----------------------------------------------------------------------------
(* An add_turn interleaved with a clear_session or a get_history of the    *)
(* same session (SpecRace).  Worker 1 serves the add_turn; worker 2 serves *)
(* the other request.  added is not reset by the clear here: it numbers the *)
(* turns, and a turn pushed after the clear has to differ from the turns   *)
(* stored before it.                                                       *)

\* The worker that serves the other request.
Other(w) == CHOOSE v \in Workers : v # w

\* clear_session: redis_client.delete(turns_key).  last records what the
\* clear found: how many turns had been added, and whether the add_turn had
\* read the history and not completed its summarization.
CS_DeleteTurns(w) ==
    /\ pc[w] = "idle"
    /\ turns' = <<>>
    /\ pc' = [pc EXCEPT ![w] = "delete_summary"]
    /\ last' = [op |-> "clear", upto |-> added,
                in_flight |-> pc[Other(w)] \in Summarizing]
    /\ UNCHANGED <<max_recent_turns, max_total_tokens, enable_summarization,
                   llm_configured, summary, store_up, added, forced>>
    /\ UNCHANGED <<loc, overlapped, retvars, keyvars>>

\* clear_session: redis_client.delete(summary_key)
CS_DeleteSummary(w) ==
    /\ pc[w] = "delete_summary"
    /\ summary' = None
    /\ pc' = [pc EXCEPT ![w] = "done"]
    /\ UNCHANGED <<max_recent_turns, max_total_tokens, enable_summarization,
                   llm_configured, turns, store_up, added, forced, last>>
    /\ UNCHANGED <<loc, overlapped, retvars, keyvars>>

\* get_history of a reader: redis_client.get(summary_key)
GH_GetSummary(w) ==
    /\ pc[w] = "idle"
    /\ loc' = [loc EXCEPT ![w].summ = summary]
    /\ pc' = [pc EXCEPT ![w] = "reader_lrange"]
    /\ UNCHANGED <<memvars, overlapped, retvars, keyvars>>

\* get_history of a reader: redis_client.lrange(turns_key, -limit, -1) and the
\* return.  last records what was returned, and, when the add_turn is at its
\* summarization, the log that add_turn read before it.
GH_LRange(w) ==
    /\ pc[w] = "reader_lrange"
    /\ last' = [op |-> "get_history",
                summary |-> ParseSummary(loc[w].summ),
                recent_turns |-> LRange(turns, max_recent_turns * 2),
                compacting |-> pc[Other(w)] \in Summarizing,
                before |-> loc[Other(w)].recent]
    /\ loc' = [loc EXCEPT ![w] = IdleLocals]
    /\ pc' = [pc EXCEPT ![w] = "done"]
    /\ UNCHANGED <<max_recent_turns, max_total_tokens, enable_summarization,
                   llm_configured, turns, summary, store_up, added, forced>>
    /\ UNCHANGED <<overlapped, retvars, keyvars>>

InitRace == InitConc

NextRace ==
    \/ \E tok \in TokenCounts : AT_Rpush(1, tok)
    \/ AT_GetSummary(1)
    \/ \E llm \in LlmOutcomes, stok \in TokenCounts : AT_LRange(1, llm, stok)
    \/ AT_SetSummary(1)
    \/ AT_Delete(1)
    \/ AT_RpushKeep(1)
    \/ CS_DeleteTurns(2)
    \/ CS_DeleteSummary(2)
    \/ GH_GetSummary(2)
    \/ GH_LRange(2)

SpecRace == InitRace /\ [][NextRace]_vars

-----------------------------------------------------------------------------
(* Part B.  The hybrid retriever (services/retriever.py), SpecRetrieve.    *)
(*                                                                         *)
(* Strings are strings: str.lower, the substring test and re.search are    *)
(* computed on the characters of the query and of the subsection titles.   *)
(* Scores are exact rationals kept as integers:                            *)
(*   a raw channel score r           stands for r / RawOne,                *)
(*   a normalised score n            stands for n / NormScale,             *)
(*   a boost multiplier m            stands for m / BoostUnit,             *)
(*   a result score s                stands for s / ScoreOne.              *)

\* 1.0 as a boost multiplier (boost_multiplier = 1.0): multipliers are in hundredths.
BoostUnit == 100
\* min(boost_strength, 2.0)
BoostCap == 200
\* boost_strength *= 1.2
MultiMatchFactor == 120
\* settings.hybrid_alpha = 0.7 = AlphaTenths / AlphaDen
AlphaTenths == 7
AlphaDen == 10

\* retrieve is called with top_k 1 or MaxTopK, and a channel answers with at
\* most MaxHits hits (and never more than the limit it was given).
MaxTopK == 2
MaxHits == 2

\* The raw scores the channels answer with.  Qdrant scores are cosine
\* similarities (Distance.COSINE), in [-1, 1]; BM25 scores are positive.
DenseScores  == {-1, 0, 1, 2}
SparseScores == {1, 2}

RECURSIVE SetMax(_)
SetMax(S) ==
    LET x == CHOOSE y \in S : TRUE
    IN  IF S = {x} THEN x ELSE Max(x, SetMax(S \ {x}))

RECURSIVE SetProduct(_)
SetProduct(S) ==
    IF S = {} THEN 1
    ELSE LET x == CHOOSE y \in S : TRUE IN x * SetProduct(S \ {x})

RawOne    == SetMax(DenseScores)
NormScale == SetProduct({s \in DenseScores \cup SparseScores : s > 0})
ScoreOne  == AlphaDen * NormScale * BoostUnit * BoostUnit

\* ---- str and re -----------------------------------------------------------

LowerCase == "abcdefghijklmnopqrstuvwxyz"
UpperCase == "ABCDEFGHIJKLMNOPQRSTUVWXYZ"
Digits    == "0123456789"

CharAt(s, i) == SubSeq(s, i, i)

PosIn(c, alphabet) ==
    IF \E i \in 1..Len(alphabet) : CharAt(alphabet, i) = c
    THEN CHOOSE i \in 1..Len(alphabet) : CharAt(alphabet, i) = c
    ELSE 0

IsDigit(c)    == PosIn(c, Digits) > 0
IsLetter(c)   == PosIn(c, LowerCase) > 0 \/ PosIn(c, UpperCase) > 0
IsWordChar(c) == IsDigit(c) \/ IsLetter(c) \/ c = "_"
IsSpace(c)    == c \in {" ", "\t", "\n"}

RECURSIVE lower(_)
lower(s) ==
    IF s = "" THEN ""
    ELSE LET c == CharAt(s, 1)
             p == PosIn(c, UpperCase)
         IN  (IF p > 0 THEN CharAt(LowerCase, p) ELSE c) \o lower(SubSeq(s, 2, Len(s)))

RECURSIVE upper(_)
upper(s) ==
    IF s = "" THEN ""
    ELSE LET c == CharAt(s, 1)
             p == PosIn(c, LowerCase)
         IN  (IF p > 0 THEN CharAt(UpperCase, p) ELSE c) \o upper(SubSeq(s, 2, Len(s)))

\* Python's `sub in s`
Contains(s, sub) ==
    \E i \in 1..(Len(s) - Len(sub) + 1) : SubSeq(s, i, i + Len(sub) - 1) = sub

\* The regular expressions of boost_mappings are sequences of three atoms:
\* a literal, an optional character (x?) and a run of whitespace (\s+).
Lit(s) == [t |-> "lit", s |-> s]
Opt(c) == [t |-> "opt", s |-> c]
Ws     == [t |-> "ws",  s |-> " "]

\* The atoms of followup_patterns: (a|b|c), \s, \s*, \d{4}, \?*, \w+ and $.
Alt(words) == [t |-> "alt", s |-> words]
Sp     == [t |-> "sp",   s |-> " "]
Ws0    == [t |-> "ws0",  s |-> " "]
D4     == [t |-> "d4",   s |-> "0"]
Q0     == [t |-> "q0",   s |-> "?"]
Word   == [t |-> "word", s |-> "w"]
End    == [t |-> "end",  s |-> ""]

\* (word\s+)?
OptLitWs(w) == [t |-> "optlw", s |-> w]

RECURSIVE re_match_at(_, _, _, _)
re_match_at(pattern, j, s, i) ==
    IF j > Len(pattern) THEN TRUE
    ELSE LET a == pattern[j]
         IN  CASE a.t = "lit" ->
                    /\ i + Len(a.s) - 1 <= Len(s)
                    /\ SubSeq(s, i, i + Len(a.s) - 1) = a.s
                    /\ re_match_at(pattern, j + 1, s, i + Len(a.s))
               [] a.t = "opt" ->
                    \/ /\ i <= Len(s)
                       /\ CharAt(s, i) = a.s
                       /\ re_match_at(pattern, j + 1, s, i + 1)
                    \/ re_match_at(pattern, j + 1, s, i)
               [] a.t = "ws" ->
                    \E n \in 1..(Len(s) - i + 1) :
                        /\ \A m \in i..(i + n - 1) : IsSpace(CharAt(s, m))
                        /\ re_match_at(pattern, j + 1, s, i + n)
               [] a.t = "ws0" ->
                    \E n \in 0..(Len(s) - i + 1) :
                        /\ \A m \in i..(i + n - 1) : IsSpace(CharAt(s, m))
                        /\ re_match_at(pattern, j + 1, s, i + n)
               [] a.t = "sp" ->
                    /\ i <= Len(s) /\ IsSpace(CharAt(s, i))
                    /\ re_match_at(pattern, j + 1, s, i + 1)
               [] a.t = "alt" ->
                    \E w \in a.s :
                        /\ i + Len(w) - 1 <= Len(s)
                        /\ SubSeq(s, i, i + Len(w) - 1) = w
                        /\ re_match_at(pattern, j + 1, s, i + Len(w))
               [] a.t = "d4" ->
                    /\ i + 3 <= Len(s)
                    /\ \A m \in i..(i + 3) : IsDigit(CharAt(s, m))
                    /\ re_match_at(pattern, j + 1, s, i + 4)
               [] a.t = "q0" ->
                    \E n \in 0..(Len(s) - i + 1) :
                        /\ \A m \in i..(i + n - 1) : CharAt(s, m) = "?"
                        /\ re_match_at(pattern, j + 1, s, i + n)
               [] a.t = "word" ->
                    \E n \in 1..(Len(s) - i + 1) :
                        /\ \A m \in i..(i + n - 1) : IsWordChar(CharAt(s, m))
                        /\ re_match_at(pattern, j + 1, s, i + n)
               [] a.t = "optlw" ->
                    \/ re_match_at(<<Lit(a.s), Ws>> \o SubSeq(pattern, j + 1, Len(pattern)),
                                   1, s, i)
                    \/ re_match_at(pattern, j + 1, s, i)
               [] a.t = "end" ->
                    /\ \/ i = Len(s) + 1
                       \/ i = Len(s) /\ CharAt(s, i) = "\n"
                    /\ re_match_at(pattern, j + 1, s, Len(s) + 1)

\* re.search(pattern, s) is not None
re_search(pattern, s) ==
    \E i \in 1..(Len(s) + 1) : re_match_at(pattern, 1, s, i)

\* \b at position i: between s[i-1] and s[i]
WordBoundary(s, i) ==
    LET before == i > 1 /\ IsWordChar(CharAt(s, i - 1))
        after  == i <= Len(s) /\ IsWordChar(CharAt(s, i))
    IN  before # after

RECURSIVE RunLength(_, _, _)
\* the length of the longest run of spaces (kind "s") or digits (kind "d") at i
RunLength(s, i, kind) ==
    IF i > Len(s) THEN 0
    ELSE IF (IF kind = "s" THEN IsSpace(CharAt(s, i)) ELSE IsDigit(CharAt(s, i)))
         THEN 1 + RunLength(s, i + 1, kind)
         ELSE 0

\* r'\bItem\s+(\d+[A-Za-z]?)\b' with re.IGNORECASE matched at position i: the
\* captured group (as a one-element sequence), or None.  \s+ and \d+ can only
\* take their whole runs, and the optional letter is taken when \b holds
\* after it.
ItemMatchAt(s, i) ==
    IF ~ (/\ i + 3 <= Len(s)
          /\ lower(SubSeq(s, i, i + 3)) = "item"
          /\ WordBoundary(s, i))
    THEN None
    ELSE LET sp == RunLength(s, i + 4, "s")
             j  == i + 4 + sp
             d  == RunLength(s, j, "d")
             e  == j + d
         IN  IF sp = 0 \/ d = 0 THEN None
             ELSE IF e <= Len(s) /\ IsLetter(CharAt(s, e)) /\ WordBoundary(s, e + 1)
                  THEN <<SubSeq(s, j, e)>>
             ELSE IF WordBoundary(s, e) THEN <<SubSeq(s, j, e - 1)>>
             ELSE None

\* The section name as a one-element sequence, or None.
extract_section_name(query) ==
    LET starts == {i \in 1..Len(query) : ItemMatchAt(query, i) # None}
    IN  IF starts = {} THEN None
        ELSE LET first == CHOOSE i \in starts : \A k \in starts : i <= k
             IN  <<"ITEM " \o upper(ItemMatchAt(query, first)[1]) \o ".">>

\* ---- the index and the queries --------------------------------------------

\* The chunks of the indexed filing: the payload of a Qdrant point.  The
\* Elasticsearch document of a chunk (_source) holds filename, section,
\* chunk_idx and text only.
Corpus ==
    << [filename |-> "tsla-10k.pdf", section |-> "ITEM 1.",  chunk_idx |-> 0,
        subsection_title |-> "Overview"],
       [filename |-> "tsla-10k.pdf", section |-> "ITEM 1A.", chunk_idx |-> 0,
        subsection_title |-> "Risk Factors"],
       [filename |-> "tsla-10k.pdf", section |-> "ITEM 1A.", chunk_idx |-> 1,
        subsection_title |-> "Changes in Tax  Credits"] >>

Chunks == 1..Len(Corpus)

DensePayload(c) == Corpus[c]

SparsePayload(c) ==
    [filename |-> Corpus[c].filename, section |-> Corpus[c].section,
     chunk_idx |-> Corpus[c].chunk_idx]

Queries ==
    { "What products does the company sell?",
      "What tax credits and incentives are available?",
      "Summarize the risk factors in item 1a",
      "How does tax affect the company?" }

\* ---- the boost analyzer ---------------------------------------------------

boost_mappings ==
    << [category |-> "programs_incentives",
        keywords |-> <<"programs", "incentives", "program", "incentive",
                       "benefits", "grants", "funding">>,
        subsection_patterns |->
            << <<Lit("program"), Opt("s"), Ws, Lit("and"), Ws, Lit("incentive"), Opt("s")>>,
               <<Lit("incentive"), Opt("s")>>,
               <<Lit("government"), Ws, Lit("program"), Opt("s")>>,
               <<Lit("benefits")>> >>,
        boost_score |-> 150],
       [category |-> "tax_credits",
        keywords |-> <<"tax", "credit", "credits", "deduction", "deductions",
                       "tax benefits">>,
        subsection_patterns |->
            << <<Lit("tax"), Ws, Lit("credit"), Opt("s")>>,
               <<Lit("tax"), Ws, Lit("benefit"), Opt("s")>>,
               <<Lit("tax"), Ws, Lit("deduction"), Opt("s")>> >>,
        boost_score |-> 160],
       [category |-> "regulations",
        keywords |-> <<"regulations", "regulation", "regulatory", "compliance",
                       "rules", "requirements">>,
        subsection_patterns |->
            << <<Lit("regulation"), Opt("s")>>,
               <<Lit("regulatory")>>,
               <<Lit("compliance")>>,
               <<Lit("legal"), Ws, Lit("requirements")>> >>,
        boost_score |-> 140],
       [category |-> "environmental",
        keywords |-> <<"environmental", "environment", "climate", "emissions",
                       "sustainability", "green">>,
        subsection_patterns |->
            << <<Lit("environmental")>>,
               <<Lit("climate")>>,
               <<Lit("emissions")>>,
               <<Lit("sustainability")>> >>,
        boost_score |-> 130],
       [category |-> "risk_factors",
        keywords |-> <<"risk", "risks", "factors", "challenges", "uncertainties">>,
        subsection_patterns |->
            << <<Lit("risk"), Ws, Lit("factors")>>,
               <<Lit("risk"), Opt("s")>>,
               <<Lit("uncertainties")>> >>,
        boost_score |-> 120],
       [category |-> "competition",
        keywords |-> <<"competition", "competitive", "competitors", "market share",
                       "rivalry">>,
        subsection_patterns |->
            << <<Lit("competition")>>,
               <<Lit("competitive")>>,
               <<Lit("competitors")>> >>,
        boost_score |-> 120] >>

\* if keyword_matches > 1 or pattern_matches > 1
MultipleMatches(keyword_matches, pattern_matches) ==
    keyword_matches > 1 \/ pattern_matches > 1

\* One iteration of the loop over boost_mappings.items().
DetectBoost(config, query_lower) ==
    LET keyword_matches ==
            Cardinality({i \in 1..Len(config.keywords) :
                            Contains(query_lower, config.keywords[i])})
        pattern_matches ==
            Cardinality({i \in 1..Len(config.subsection_patterns) :
                            re_search(config.subsection_patterns[i], query_lower)})
        boost_strength ==
            IF MultipleMatches(keyword_matches, pattern_matches)
            THEN (config.boost_score * MultiMatchFactor) \div BoostUnit
            ELSE config.boost_score
    IN  [category |-> config.category,
         detected |-> keyword_matches > 0 \/ pattern_matches > 0,
         boost_score |-> Min(boost_strength, BoostCap),
         keyword_matches |-> keyword_matches,
         pattern_matches |-> pattern_matches,
         subsection_patterns |-> config.subsection_patterns]

analyze_query_for_subsections(query) ==
    LET query_lower == lower(query)
        all == [i \in 1..Len(boost_mappings) |-> DetectBoost(boost_mappings[i], query_lower)]
        IsDetected(b) == b.detected
        detected_boosts == SelectSeq(all, IsDetected)
    IN  [boosts |-> detected_boosts,
         has_boosts |-> Len(detected_boosts) > 0,
         max_boost |-> SetMax({BoostUnit} \cup
                              {detected_boosts[i].boost_score : i \in 1..Len(detected_boosts)})]

\* result.get(name, default)
Get(d, name, default) == IF name \in DOMAIN d THEN d[name] ELSE default

\* The stable descending sort of sorted(..., reverse=True) and list.sort.
RECURSIVE InsertByScore(_, _)
InsertByScore(sorted, x) ==
    IF sorted = <<>> THEN <<x>>
    ELSE IF Head(sorted).score >= x.score
         THEN <<Head(sorted)>> \o InsertByScore(Tail(sorted), x)
         ELSE <<x>> \o sorted

RECURSIVE SortByScore(_)
SortByScore(s) ==
    IF s = <<>> THEN <<>>
    ELSE InsertByScore(SortByScore(SubSeq(s, 1, Len(s) - 1)), s[Len(s)])

\* The categories of the analysis with a pattern found in the title, in the
\* order of the analysis (boost_reasons).
MatchingBoosts(subsection_title, boosts) ==
    LET Hits(b) == \E p \in 1..Len(b.subsection_patterns) :
                       re_search(b.subsection_patterns[p], subsection_title)
    IN  SelectSeq(boosts, Hits)

\* boost_multiplier = max(boost_multiplier, boost_config["boost_score"]) from 1.0
BoostMultiplier(subsection_title, boosts) ==
    LET m == MatchingBoosts(subsection_title, boosts)
    IN  SetMax({BoostUnit} \cup {m[i].boost_score : i \in 1..Len(m)})

\* The analysis and the section reference of each query of the model, and
\* the multiplier and the reasons that the loop over query_analysis["boosts"]
\* finds for each subsection title of the index (a missing title reads "").
QueryAnalysis == [q \in Queries |-> analyze_query_for_subsections(q)]
SectionName   == [q \in Queries |-> extract_section_name(q)]

Titles == {Get(Corpus[c], "subsection_title", "") : c \in Chunks} \cup {""}

TitleBoost ==
    [boosts \in {QueryAnalysis[q].boosts : q \in Queries} |->
        [title \in Titles |->
            LET subsection_title == lower(title)
                m == MatchingBoosts(subsection_title, boosts)
            IN  [boost_multiplier |-> BoostMultiplier(subsection_title, boosts),
                 boost_reasons |-> [i \in 1..Len(m) |-> m[i].category]]]]

BoostOne(result, boosts) ==
    LET known            == TitleBoost[boosts][Get(result, "subsection_title", "")]
        original_score   == Get(result, "score", 0)
        boost_multiplier == known.boost_multiplier
        boosted_score    == (original_score * boost_multiplier) \div BoostUnit
    IN  [original_score   |-> original_score,
         boost_multiplier |-> boost_multiplier,
         boost_reasons    |-> known.boost_reasons,
         boosted_score    |-> boosted_score,
         score            |-> boosted_score] @@ result

apply_subsection_boosting(results, query_analysis) ==
    IF ~query_analysis.has_boosts THEN results
    ELSE SortByScore([i \in 1..Len(results) |-> BoostOne(results[i], query_analysis.boosts)])

\* ---- the channels ---------------------------------------------------------

TopKs == {1, MaxTopK}

\* What a channel answers: it raises, or it returns at most n hits in
\* non-increasing order of score.  A Qdrant collection holds a chunk once
\* (the collection is recreated at each ingestion); the Elasticsearch index
\* is appended to at each ingestion and can hold a chunk several times.
IsRanked(h) == \A i \in 1..(Len(h) - 1) : h[i].score >= h[i + 1].score

NoRepeat(h) == \A i, j \in 1..Len(h) : h[i].c = h[j].c => i = j

HitLists(scores, n) ==
    UNION { {h \in [1..m -> [c : Chunks, score : scores]] : IsRanked(h)} : m \in 0..n }

Raised == [raises |-> TRUE, hits |-> <<>>]

Answered(h) == [raises |-> FALSE, hits |-> h]

DenseAnswers ==
    [n \in 1..MaxHits |->
        {Raised} \cup {Answered(h) : h \in {g \in HitLists(DenseScores, n) : NoRepeat(g)}}]

SparseAnswers ==
    [n \in 1..MaxHits |->
        {Raised} \cup {Answered(h) : h \in HitLists(SparseScores, n)}]

\* What the exact-filter scroll for a section answers: it raises, or it
\* returns at most n of the chunks that carry the section.
SectionAnswers(section_name, n) ==
    {Raised} \cup
    {Answered(h) : h \in {g \in HitLists({RawOne}, n) :
                             /\ NoRepeat(g)
                             /\ \A i \in 1..Len(g) : Corpus[g[i].c].section = section_name}}


\* The value passed for an answer of a search that retrieve does not reach.
Unused == [raises |-> FALSE, hits |-> <<>>]

\* ---- retrieve --------------------------------------------------------------

\* _search_by_section: the hits of the scroll with score 1.0, and [] when the
\* scroll raises.
search_by_section(answer) ==
    IF answer.raises THEN <<>>
    ELSE [i \in 1..Len(answer.hits) |->
            [payload |-> DensePayload(answer.hits[i].c),
             score |-> ScoreOne,
             search_type |-> "section_match"]]

\* _dense_search and _sparse_search, when the store answers.
dense_search(answer) ==
    [i \in 1..Len(answer.hits) |->
        [payload |-> DensePayload(answer.hits[i].c),
         score |-> answer.hits[i].score,
         search_type |-> "dense"]]

sparse_search(answer) ==
    [i \in 1..Len(answer.hits) |->
        [payload |-> SparsePayload(answer.hits[i].c),
         score |-> answer.hits[i].score,
         search_type |-> "sparse"]]

\* s / mx as a multiple of 1 / NormScale
Ratio(s, mx) ==
    IF mx > 0 THEN (s * NormScale) \div mx ELSE ((0 - s) * NormScale) \div (0 - mx)

\* _normalise
normalise(scores) ==
    IF scores = <<>> THEN <<>>
    ELSE LET mx == SetMax({scores[i] : i \in 1..Len(scores)})
         IN  IF mx = 0 THEN [i \in 1..Len(scores) |-> 0]
             ELSE [i \in 1..Len(scores) |-> Ratio(scores[i], mx)]

\* _key
key_of(p) ==
    <<Get(p, "filename", None), Get(p, "section", None), Get(p, "chunk_idx", None)>>

\* merged is a dict: a sequence of entries in insertion order, one per key.
IndexOfKey(merged, k) ==
    IF \E i \in 1..Len(merged) : key_of(merged[i].payload) = k
    THEN CHOOSE i \in 1..Len(merged) : key_of(merged[i].payload) = k
    ELSE 0

\* A dict that keeps every entry it is given, repeated keys included.
DictSet_Append(merged, entry) == Append(merged, entry)

DictSet(merged, entry) ==
    LET i == IndexOfKey(merged, key_of(entry.payload))
    IN  IF i = 0 THEN Append(merged, entry) ELSE [merged EXCEPT ![i] = entry]

\* merged[k] = {...} of the loop over dense_hits
DenseEntry(h) ==
    [payload |-> h.payload,
     dense_score |-> h.score, dense_score_norm |-> h.dense_score_norm,
     sparse_score |-> 0, sparse_score_norm |-> 0]

\* A sparse hit that replaces the entry of its key instead of updating it.
SparseEntry_Fresh(merged, h) ==
    [payload |-> h.payload,
     dense_score |-> 0, dense_score_norm |-> 0,
     sparse_score |-> h.score, sparse_score_norm |-> h.sparse_score_norm]

\* entry = merged.get(k, {...}); entry["sparse_score"] = ...; merged[k] = entry
SparseEntry(merged, h) ==
    LET i == IndexOfKey(merged, key_of(h.payload))
        entry == IF i # 0 THEN merged[i]
                 ELSE [payload |-> h.payload,
                       dense_score |-> 0, dense_score_norm |-> 0,
                       sparse_score |-> 0, sparse_score_norm |-> 0]
    IN  [entry EXCEPT !.sparse_score = h.score,
                      !.sparse_score_norm = h.sparse_score_norm]

RECURSIVE MergeDense(_, _)
MergeDense(merged, hits) ==
    IF hits = <<>> THEN merged
    ELSE MergeDense(DictSet(merged, DenseEntry(Head(hits))), Tail(hits))

RECURSIVE MergeSparse(_, _)
MergeSparse(merged, hits) ==
    IF hits = <<>> THEN merged
    ELSE MergeSparse(DictSet(merged, SparseEntry(merged, Head(hits))), Tail(hits))

\* alpha * dense_score_norm + (1 - alpha) * sparse_score_norm
FusionScore(dense_score_norm, sparse_score_norm) ==
    (AlphaTenths * dense_score_norm + (AlphaDen - AlphaTenths) * sparse_score_norm)
        * BoostUnit * BoostUnit

\* [:top_k]
Truncate(s, top_k) == SubSeq(s, 1, Min(top_k, Len(s)))

\* retrieve(query_vec, query_text, top_k, filename = None): what it returns and
\* what it computed on the way, given what the stores answer.  No filename
\* filter is passed (the filter is applied by the stores).
retrieve(query_text, top_k, section_answer, dense_answer, sparse_answer) ==
    LET query_analysis == QueryAnalysis[query_text]
        section_name   == SectionName[query_text]
        section_hits   == IF section_name # None
                          THEN search_by_section(section_answer) ELSE <<>>
        base == [op |-> "retrieve", outcome |-> "ok", path |-> "hybrid",
                 section_issued |-> section_name # None,
                 section_raised |-> section_name # None /\ section_answer.raises,
                 section_hits |-> section_hits,
                 dense_issued |-> TRUE, sparse_issued |-> TRUE,
                 dense_raised |-> FALSE, sparse_raised |-> FALSE,
                 dense_hits |-> <<>>, sparse_hits |-> <<>>,
                 merged |-> <<>>, results |-> <<>>]
    IN  IF section_hits # <<>>
        THEN LET results ==
                     [i \in 1..Len(section_hits) |->
                         [score |-> section_hits[i].score,
                          dense_score |-> RawOne,
                          sparse_score |-> RawOne,
                          search_type |-> "section_match"] @@ section_hits[i].payload]
             IN  [base EXCEPT !.path = "section_match",
                              !.dense_issued = FALSE, !.sparse_issued = FALSE,
                              !.results = IF query_analysis.has_boosts
                                          THEN apply_subsection_boosting(results, query_analysis)
                                          ELSE results]
        ELSE IF dense_answer.raises
        THEN [base EXCEPT !.outcome = "error", !.dense_raised = TRUE,
                          !.sparse_issued = FALSE]
        ELSE IF sparse_answer.raises
        THEN [base EXCEPT !.outcome = "error", !.sparse_raised = TRUE]
        ELSE LET d0 == dense_search(dense_answer)
                 s0 == sparse_search(sparse_answer)
                 dense_norm  == normalise([i \in 1..Len(d0) |-> d0[i].score])
                 sparse_norm == normalise([i \in 1..Len(s0) |-> s0[i].score])
                 dense_hits  == [i \in 1..Len(d0) |->
                                    [dense_score_norm |-> dense_norm[i]] @@ d0[i]]
                 sparse_hits == [i \in 1..Len(s0) |->
                                    [sparse_score_norm |-> sparse_norm[i]] @@ s0[i]]
                 m0 == MergeSparse(MergeDense(<<>>, dense_hits), sparse_hits)
                 merged == [i \in 1..Len(m0) |->
                               [score |-> FusionScore(m0[i].dense_score_norm,
                                                      m0[i].sparse_score_norm)] @@ m0[i]]
                 ranked == Truncate(SortByScore(merged), top_k)
                 results == [i \in 1..Len(ranked) |->
                                [score |-> ranked[i].score,
                                 dense_score |-> ranked[i].dense_score,
                                 sparse_score |-> ranked[i].sparse_score,
                                 search_type |-> "hybrid"] @@ ranked[i].payload]
             IN  [base EXCEPT !.dense_hits = dense_hits,
                              !.sparse_hits = sparse_hits,
                              !.merged = merged,
                              !.results = IF query_analysis.has_boosts
                                          THEN apply_subsection_boosting(results, query_analysis)
                                          ELSE results]

\* What the stores can answer to the searches of one call: the scroll (when
\* the query names a section), then the two channels with limit top_k * 2
\* when retrieve reaches them.
Limit(n) == Min(n, MaxHits)

Environments(query_text, top_k) ==
    LET section_name == SectionName[query_text]
        scrolls == IF section_name = None THEN {Unused}
                   ELSE SectionAnswers(section_name[1], Limit(top_k))
        through == {a \in scrolls : a.raises \/ a.hits = <<>>}
        dense   == DenseAnswers[Limit(top_k * 2)]
        sparse  == SparseAnswers[Limit(top_k * 2)]
    IN  {<<a, Unused, Unused>> : a \in scrolls \ through}
        \cup {<<a, Raised, Unused>> : a \in through}
        \cup {<<a, d, s>> : a \in through, d \in dense \ {Raised}, s \in sparse}

\* retrieve runs and returns (or raises).
Retrieve ==
    /\ rq # NoOp /\ rs = NoOp
    /\ \E env \in Environments(rq.query_text, rq.top_k) :
           rs' = retrieve(rq.query_text, rq.top_k, env[1], env[2], env[3])
    /\ UNCHANGED <<rq, memvars, concvars, keyvars>>

\* A query endpoint calls retrieve with the (rewritten) query and top_k.
Query(query_text, top_k) ==
    /\ rq = NoOp
    /\ rq' = [op |-> "retrieve", query_text |-> query_text, top_k |-> top_k]
    /\ UNCHANGED <<rs, memvars, concvars, keyvars>>

InitRetrieve ==
    /\ max_recent_turns = 1
    /\ max_total_tokens = 1
    /\ enable_summarization = TRUE
    /\ llm_configured = FALSE
    /\ turns = <<>>
    /\ summary = None
    /\ store_up = TRUE
    /\ added = 0
    /\ forced = FALSE
    /\ last = NoOp
    /\ ConcIdle
    /\ RetIdle
    /\ KeyIdle

NextRetrieve ==
    \/ \E query_text \in Queries, top_k \in TopKs : Query(query_text, top_k)
    \/ Retrieve

SpecRetrieve == InitRetrieve /\ [][NextRetrieve]_vars

-----------------------------------------------------------------------------
(* Properties of the summary buffer memory, one handler at a time (Spec).  *)

AddTurnReturned == last.op = "rag_query" /\ last.outcome = "ok"

SummaryTurnCount(sm) == IF sm # None THEN sm[1].turn_count ELSE 0

\* C1: with summarization enabled, after each add_turn returns the raw turn
\* log of the session holds at most max_recent_turns turns.
C1_RawLogBounded ==
    (AddTurnReturned /\ enable_summarization) => Len(turns) <= max_recent_turns

\* C1 witness: an add_turn that summarized and left a full log of several turns.
C1_Witness ==
    /\ AddTurnReturned /\ enable_summarization /\ last.summarized
    /\ max_recent_turns >= 2 /\ Len(turns) = max_recent_turns

\* C2: after n add_turn calls on a fresh session (nothing but add_turn since
\* it was created or cleared) with max_recent_turns = k, the raw log holds
\* min(n, k) turns, there is no summary while n <= k, and for n > k there is
\* a summary whose turn_count is n - k.
C2_LengthAndTurnCount ==
    (enable_summarization /\ ~forced) =>
        /\ Len(turns) = Min(added, max_recent_turns)
        /\ added <= max_recent_turns => summary = None
        /\ added > max_recent_turns =>
               /\ summary # None
               /\ summary[1].turn_count = added - max_recent_turns

\* C2 witness: the fourth turn with max_recent_turns = 2 (turn_count 2, 2 raw turns).
C2_Witness ==
    /\ enable_summarization /\ ~forced /\ max_recent_turns = 2 /\ added = 4
    /\ AddTurnReturned /\ Len(turns) = 2 /\ SummaryTurnCount(summary) = 2

C7_ClearedHistoryEmpty ==
    (last.op = "clear" /\ last.outcome = "ok") =>
        get_history(summary, turns, max_recent_turns) = <<None, <<>>>>

\* C7 witness: a clear of a session that held a summary and raw turns.
C7_Witness ==
    /\ last.op = "clear" /\ last.outcome = "ok"
    /\ last.had_summary /\ last.had_turns > 0
    /\ summary = None /\ turns = <<>>

\* C9 (as claimed): a query made while the session store is unreachable is
\* still retrieved for and answered.
C9_AnswersWithoutStore ==
    (last.op = "rag_query" /\ ~last.store_up) => (last.retrieved /\ last.answered)

-----------------------------------------------------------------------------
(* Properties of interleaved add_turn calls (SpecConc).                    *)

AllDone == \A w \in Workers : pc[w] = "done"

\* What add_turn calls executed one after the other leave behind: the last
\* min(n, k) turns in the order they were appended, and every older turn
\* counted once in turn_count.
SeqConsistent ==
    /\ Len(turns) = Min(added, max_recent_turns)
    /\ \A i \in 1..Len(turns) : turns[i].id = added - Len(turns) + i
    /\ SummaryTurnCount(summary) = added - Len(turns)

\* C8: add_turn calls on one session are not serialized.  Two calls that do
\* not overlap always leave a state a sequential execution leaves; two calls
\* that are at the summarization step together can complete in a state that
\* no sequential execution leaves (C8_Witness).
C8_OnlyOverlapBreaksConsistency ==
    (AllDone /\ overlapped = "no") => SeqConsistent

\* C8 witness: both calls have completed after summarizing together, and a
\* summarized turn is counted twice or a raw turn is lost or duplicated.
C8_Witness ==
    /\ AllDone /\ overlapped = "summarizing"
    /\ ~SeqConsistent

-----------------------------------------------------------------------------
(* Properties of retrieve (SpecRetrieve).                                  *)

HybridReturned == rs.op = "retrieve" /\ rs.outcome = "ok" /\ rs.path = "hybrid"

KeysOf(hits) == {key_of(hits[i].payload) : i \in 1..Len(hits)}

\* The hit a dict keeps for key k: the last one of the list.
LastHit(hits, k) ==
    hits[CHOOSE i \in 1..Len(hits) :
            /\ key_of(hits[i].payload) = k
            /\ \A j \in (i + 1)..Len(hits) : key_of(hits[j].payload) # k]

\* The score of a result before boosting.
PreBoostScore(r) == Get(r, "original_score", r.score)

\* C4: on the hybrid path the merged set holds one entry per chunk key
\* returned by either channel; the entry carries the raw and the normalised
\* score of each channel that returned the chunk and 0 for a channel that did
\* not; its pre-boost score is alpha * dense_score_norm + (1 - alpha) *
\* sparse_score_norm, and that is the pre-boost score of the returned result.
C4_FusionScore ==
    HybridReturned =>
        LET dk == KeysOf(rs.dense_hits)
            sk == KeysOf(rs.sparse_hits)
        IN  /\ KeysOf(rs.merged) = dk \cup sk
            /\ \A i, j \in 1..Len(rs.merged) :
                   key_of(rs.merged[i].payload) = key_of(rs.merged[j].payload) => i = j
            /\ \A i \in 1..Len(rs.merged) :
                   LET m == rs.merged[i]
                       k == key_of(m.payload)
                   IN  /\ m.score = (AlphaTenths * m.dense_score_norm
                                      + (AlphaDen - AlphaTenths) * m.sparse_score_norm)
                                     * BoostUnit * BoostUnit
                       /\ IF k \in dk
                          THEN /\ m.dense_score = LastHit(rs.dense_hits, k).score
                               /\ m.dense_score_norm = LastHit(rs.dense_hits, k).dense_score_norm
                          ELSE m.dense_score = 0 /\ m.dense_score_norm = 0
                       /\ IF k \in sk
                          THEN /\ m.sparse_score = LastHit(rs.sparse_hits, k).score
                               /\ m.sparse_score_norm = LastHit(rs.sparse_hits, k).sparse_score_norm
                          ELSE m.sparse_score = 0 /\ m.sparse_score_norm = 0
            /\ \A j \in 1..Len(rs.results) :
                   \E i \in 1..Len(rs.merged) :
                       /\ key_of(rs.merged[i].payload) = key_of(rs.results[j])
                       /\ PreBoostScore(rs.results[j]) = rs.merged[i].score

\* C4 witness: a hybrid retrieval merged a chunk returned by both channels
\* (both of its normalised scores are positive) and a chunk returned by the
\* dense channel only and one by the sparse channel only.
C4_Witness ==
    /\ HybridReturned
    /\ \E i, j, l \in 1..Len(rs.merged) :
           /\ rs.merged[i].dense_score_norm > 0 /\ rs.merged[i].sparse_score_norm > 0
           /\ key_of(rs.merged[j].payload) \notin KeysOf(rs.sparse_hits)
           /\ key_of(rs.merged[l].payload) \notin KeysOf(rs.dense_hits)

\* The score boosting gives a merged entry under the analysis of the query.
BoostedScoreOf(m, boosts) ==
    (m.score * BoostMultiplier(lower(Get(m.payload, "subsection_title", "")), boosts))
        \div BoostUnit

\* C5 (as claimed): on the hybrid path with active boosts, no merged chunk
\* left out of the returned list has a boosted score strictly greater than
\* that of a returned chunk (boosting is applied before truncation to top_k).
C5_BoostBeforeTruncation ==
    (HybridReturned /\ QueryAnalysis[rq.query_text].has_boosts) =>
        \A i \in 1..Len(rs.merged), j \in 1..Len(rs.results) :
            key_of(rs.merged[i].payload) \notin KeysOf([n \in 1..Len(rs.results) |->
                                                          [payload |-> rs.results[n]]])
            => BoostedScoreOf(rs.merged[i], QueryAnalysis[rq.query_text].boosts)
                   <= rs.results[j].score

\* C6 (as claimed): when exactly one of the two channel searches raises,
\* retrieve still returns (the fused results of the surviving channel).
C6_ChannelFailureIsolated ==
    (rs.op = "retrieve" /\ rs.dense_raised # rs.sparse_raised) =>
        rs.outcome = "ok"

\* C10 (as claimed): every boost multiplier applied is at least 1.0 and at
\* most 2.0, and a result's boosted score is never lower than its pre-boost
\* score.
C10_BoostNeverLowers ==
    (rs.op = "retrieve" /\ rs.outcome = "ok") =>
        \A j \in 1..Len(rs.results) :
            "boost_multiplier" \in DOMAIN rs.results[j] =>
                /\ rs.results[j].boost_multiplier >= BoostUnit
                /\ rs.results[j].boost_multiplier <= BoostCap
                /\ rs.results[j].boosted_score >= rs.results[j].original_score

\* retrieve returned a list (on either path).
Returned == rs.op = "retrieve" /\ rs.outcome = "ok"

\* Two result lists have the same chunks in the same order with the same
\* scores and the same recorded original scores.
SameRanking(a, b) ==
    /\ Len(a) = Len(b)
    /\ \A i \in 1..Len(a) :
           /\ key_of(a[i]) = key_of(b[i])
           /\ a[i].score = b[i].score
           /\ Get(a[i], "original_score", None) = Get(b[i], "original_score", None)

\* C11 (as claimed): boost application is idempotent.  The list retrieve
\* returns is apply_subsection_boosting(R, A) when A has boosts and R itself
\* when it has none; applying the step to it once more under the same
\* analysis A gives a list with the same scores, the same recorded original
\* scores and the same order.
C11_BoostIdempotent ==
    Returned =>
        SameRanking(apply_subsection_boosting(rs.results, QueryAnalysis[rq.query_text]),
                    rs.results)

\* The raw scores a channel returned, in the order it returned them.
RawScores(hits) == [i \in 1..Len(hits) |-> hits[i].score]

\* A list of normalised scores lies in [0,1] and has the length of the raw
\* list; it is all zero when the raw list has maximum zero.
InUnitRange(scores, normed) ==
    /\ Len(normed) = Len(scores)
    /\ \A i \in 1..Len(normed) : normed[i] >= 0 /\ normed[i] <= NormScale
    /\ (scores # <<>> /\ SetMax({scores[i] : i \in 1..Len(scores)}) = 0)
           => \A i \in 1..Len(normed) : normed[i] = 0

\* C12 (as claimed): for the raw score list of either channel, the Score
\* Normalizer returns a list of the same length whose elements all lie in
\* [0,1], and all are zero when the maximum is zero or the list is empty.
C12_NormalisedInUnitRange ==
    HybridReturned =>
        /\ InUnitRange(RawScores(rs.dense_hits), normalise(RawScores(rs.dense_hits)))
        /\ InUnitRange(RawScores(rs.sparse_hits), normalise(RawScores(rs.sparse_hits)))

\* The exact-filter fetch of a section reference returned at least one chunk.
SectionFound == rs.op = "retrieve" /\ rs.section_issued /\ rs.section_hits # <<>>

\* The exact-filter fetch of a section reference returned no chunk or raised.
SectionMissed == rs.op = "retrieve" /\ rs.section_issued /\ rs.section_hits = <<>>

\* C13 (as claimed): when the query has a section reference and the fetch
\* returns at least one chunk, retrieve issues no dense and no sparse search
\* and returns at most top_k results, each with score 1.0, dense_score 1.0,
\* sparse_score 1.0 and search_type section_match.
C13_SectionShortCircuit ==
    SectionFound =>
        /\ rs.outcome = "ok" /\ rs.path = "section_match"
        /\ ~rs.dense_issued /\ ~rs.sparse_issued
        /\ Len(rs.results) <= rq.top_k
        /\ \A i \in 1..Len(rs.results) :
               /\ rs.results[i].score = ScoreOne
               /\ rs.results[i].dense_score = RawOne
               /\ rs.results[i].sparse_score = RawOne
               /\ rs.results[i].search_type = "section_match"

\* C14 (as claimed): when the query has a section reference and the fetch
\* returns no chunk or raises, retrieve does not fail and does not return
\* an empty section result: it takes the hybrid path, issues the dense and
\* the sparse search and returns the fused result.
C14_SectionFallsBackToHybrid ==
    SectionMissed =>
        /\ rs.outcome = "ok" /\ rs.path = "hybrid"
        /\ rs.dense_issued /\ rs.sparse_issued
        /\ \A j \in 1..Len(rs.results) :
               /\ rs.results[j].search_type = "hybrid"
               /\ key_of(rs.results[j]) \in KeysOf(rs.merged)

\* C18: the list returned on the hybrid path has at most top_k results, is
\* in non-increasing order of score and holds no chunk identity twice.
C18_HybridRankedDistinct ==
    HybridReturned =>
        /\ Len(rs.results) <= rq.top_k
        /\ \A i \in 1..(Len(rs.results) - 1) :
               rs.results[i].score >= rs.results[i + 1].score
        /\ \A i, j \in 1..Len(rs.results) :
               key_of(rs.results[i]) = key_of(rs.results[j]) => i = j

\* C18 witness: a hybrid retrieval with top_k = 2 merged three chunks, one
\* of them returned by both channels, and returned two of them with
\* different scores.
C18_Witness ==
    /\ HybridReturned
    /\ rq.top_k = 2 /\ Len(rs.merged) > 2 /\ Len(rs.results) = 2
    /\ rs.results[1].score > rs.results[2].score
    /\ KeysOf(rs.dense_hits) \cap KeysOf(rs.sparse_hits) # {}

-----------------------------------------------------------------------------
(* Claims about the summary buffer memory, continued.                      *)

\* The turn the add_turn of this step pushed: the last one of the log it left.
PushedTurn == turns'[Len(turns')]

\* C15: when the LLM backend raises during a summarization that add_turn
\* triggered, add_turn returns normally; the summary it stored is the one
\* the rule-based summarizer produces from the summarized turns and the
\* previous summary, and the raw log it left is the one the LLM path leaves.
C15_LlmFailureFallsBack ==
    [][ (added' = added + 1 /\ last'.op = "rag_query" /\ last'.llm_raised) =>
           LET pushed == Append(turns, PushedTurn)
               h      == get_history(summary, pushed, max_recent_turns)
               to_sum == TurnsToSummarize(h[2], max_recent_turns)
               on_llm == add_turn(summary, turns, PushedTurn, max_recent_turns,
                                  max_total_tokens, enable_summarization,
                                  TRUE, "keeps", summary'[1].tok)
           IN  /\ last'.outcome = "ok"
               /\ summary' # None
               /\ summary'[1].text = RuleBasedSummarize(to_sum, h[1])
               /\ summary'[1].turn_count = on_llm.summary[1].turn_count
               /\ turns' = on_llm.turns
               /\ turns' = TurnsToKeep(h[2], max_recent_turns) ]_vars

\* C15 witness: an add_turn whose summarization ran with the LLM backend
\* raising has folded turns into a summary that already held earlier ones.
C15_Witness ==
    /\ last.op = "rag_query" /\ last.outcome = "ok" /\ last.llm_raised
    /\ summary # None /\ Len(summary[1].text) >= 2
    /\ turns # <<>>

-----------------------------------------------------------------------------
(* The session store with key lifetimes (SpecStore).  Time passes in units *)
(* between the calls; a call takes no time.  A lifetime is 0 for an absent *)
(* key, 1..SessionTtl for a key that expires after that many units, and    *)
(* Forever for a key without expiry.                                       *)

SessionTtl == 2        \* session_ttl, in time units

Forever == SessionTtl + 1

\* RPUSH creates a key without expiry and keeps the expiry of a key that exists.
Rpush(ttl) == IF ttl = 0 THEN Forever ELSE ttl

\* An EXPIRE that leaves a key alone once it has an expiry (EXPIRE key t NX).
Expire_Once(ttl, t) == IF ttl = Forever THEN t ELSE ttl

\* EXPIRE key t: no effect on an absent key.
Expire(ttl, t) == IF ttl = 0 THEN 0 ELSE t

\* One unit of time passes over a key.
Age(ttl) == IF ttl = Forever THEN Forever ELSE Max(ttl - 1, 0)

\* The lifetime of the turns key after add_turn: rpush and expire, and when
\* _perform_summarization ran, delete, one rpush per kept turn and expire.
TurnsTtlAfterAdd(ttl, summarized, kept) ==
    LET pushed == Expire(Rpush(ttl), SessionTtl)
    IN  IF summarized
        THEN Expire(IF kept = <<>> THEN 0 ELSE Rpush(0), SessionTtl)
        ELSE pushed

\* SummaryBufferMemory.add_turn on the session.  With summarization enabled
\* and a stored summary whose parse raises out of get_history, the turn has
\* been pushed when the exception leaves add_turn.
StoreAddTurn(tok, stok) ==
    /\ added < MaxAdds
    /\ LET turn   == ConversationTurn(added + 1, tok)
           raises == enable_summarization /\ ParseRaises(summary)
           r      == IF raises
                     THEN [summary |-> summary, turns |-> Append(turns, turn),
                           summarized |-> FALSE]
                     ELSE add_turn(summary, turns, turn, max_recent_turns,
                                   max_total_tokens, enable_summarization,
                                   llm_configured, "raises", stok)
       IN  /\ turns' = r.turns
           /\ summary' = r.summary
           /\ turns_ttl' = TurnsTtlAfterAdd(turns_ttl, r.summarized, r.turns)
           /\ summary_ttl' = IF r.summarized THEN SessionTtl ELSE summary_ttl
           /\ last' = [op |-> "add_turn",
                       outcome |-> IF raises THEN "error" ELSE "ok",
                       corrupt |-> IsCorrupt(summary),
                       summarized |-> r.summarized,
                       refreshed |-> turns_ttl > 0 /\ turns_ttl < SessionTtl,
                       appended |-> turn]
    /\ added' = added + 1
    /\ idle' = 0
    /\ UNCHANGED <<max_recent_turns, max_total_tokens, enable_summarization,
                   llm_configured, store_up, forced>>
    /\ UNCHANGED <<concvars, retvars>>

\* SummaryBufferMemory.get_history on the session.
StoreGetHistory ==
    /\ last' = IF ParseRaises(summary)
               THEN [op |-> "get_history", outcome |-> "error",
                     corrupt |-> TRUE, stored |-> turns]
               ELSE LET h == get_history(summary, turns, max_recent_turns)
                    IN  [op |-> "get_history", outcome |-> "ok",
                         corrupt |-> IsCorrupt(summary), stored |-> turns,
                         summary |-> h[1], turns |-> h[2]]
    /\ UNCHANGED <<max_recent_turns, max_total_tokens, enable_summarization,
                   llm_configured, turns, summary, store_up, added, forced>>
    /\ UNCHANGED <<concvars, retvars, keyvars>>

\* The stored summary record is damaged by something other than this program.
CorruptSummary(kind) ==
    /\ summary # None /\ ~IsCorrupt(summary)
    /\ summary' = CorruptRecord(kind)
    /\ UNCHANGED <<max_recent_turns, max_total_tokens, enable_summarization,
                   llm_configured, turns, store_up, added, forced, last>>
    /\ UNCHANGED <<concvars, retvars, keyvars>>

\* One unit of time passes; the store drops the keys whose lifetime ends.
Tick ==
    /\ idle <= SessionTtl
    /\ idle' = idle + 1
    /\ turns_ttl' = Age(turns_ttl)
    /\ summary_ttl' = Age(summary_ttl)
    /\ turns' = IF Age(turns_ttl) = 0 THEN <<>> ELSE turns
    /\ summary' = IF Age(summary_ttl) = 0 THEN None ELSE summary
    /\ UNCHANGED <<max_recent_turns, max_total_tokens, enable_summarization,
                   llm_configured, store_up, added, forced, last>>
    /\ UNCHANGED <<concvars, retvars>>

InitStore ==
    /\ max_recent_turns \in 1..MaxK
    /\ max_total_tokens = 1
    /\ enable_summarization \in BOOLEAN
    /\ llm_configured = FALSE
    /\ turns = <<>>
    /\ summary = None
    /\ store_up = TRUE
    /\ added = 0
    /\ forced = FALSE
    /\ last = NoOp
    /\ ConcIdle
    /\ RetIdle
    /\ KeyIdle

NextStore ==
    \/ \E tok \in TokenCounts, stok \in TokenCounts : StoreAddTurn(tok, stok)
    \/ StoreGetHistory
    \/ \E kind \in CorruptKinds : CorruptSummary(kind)
    \/ Tick

SpecStore == InitStore /\ [][NextStore]_vars

\* POST /conversation/force-summarize/{session_id} on the session, with the
\* key lifetimes: _perform_summarization sets the summary with ex=session_ttl
\* and, after the delete and the rpush of the kept turn, expires the turns
\* key.  A summary record whose parse raises fails the handler at its first
\* get_full_context.
StoreForceSummarize(stok) ==
    /\ IF ParseRaises(summary)
       THEN /\ last' = [op |-> "force", outcome |-> "error"]
            /\ UNCHANGED <<turns, summary, forced, turns_ttl, summary_ttl>>
       ELSE IF Len(get_history(summary, turns, max_recent_turns)[2]) < 2
       THEN /\ last' = [op |-> "force", outcome |-> "not_enough"]
            /\ UNCHANGED <<turns, summary, forced, turns_ttl, summary_ttl>>
       ELSE LET r == CheckAndSummarize(summary, turns, 1, max_total_tokens,
                                       llm_configured, "raises", stok)
            IN  /\ turns' = r.turns
                /\ summary' = r.summary
                /\ forced' = TRUE
                /\ turns_ttl' = IF r.summarized
                                THEN Expire(Rpush(0), SessionTtl) ELSE turns_ttl
                /\ summary_ttl' = IF r.summarized THEN SessionTtl ELSE summary_ttl
                /\ last' = [op |-> "force", outcome |-> "ok",
                            summarized |-> r.summarized]
    /\ UNCHANGED <<max_recent_turns, max_total_tokens, enable_summarization,
                   llm_configured, store_up, added, idle>>
    /\ UNCHANGED <<concvars, retvars>>

\* add_turn, force-summarize and get_history on a session whose keys expire
\* (SpecExpiry).
NextExpiry ==
    \/ \E tok \in TokenCounts, stok \in TokenCounts : StoreAddTurn(tok, stok)
    \/ \E stok \in TokenCounts : StoreForceSummarize(stok)
    \/ StoreGetHistory
    \/ Tick

SpecExpiry == InitStore /\ [][NextExpiry]_vars

\* C16 (as claimed): when the stored summary record is corrupt, get_history
\* returns no summary together with the raw turns of the log, and add_turn
\* appends the new turn and completes.
C16_CorruptSummaryTolerated ==
    /\ (last.op = "get_history" /\ last.corrupt) =>
           /\ last.outcome = "ok"
           /\ last.summary = None
           /\ last.turns = LRange(last.stored, max_recent_turns * 2)
    /\ (last.op = "add_turn" /\ last.corrupt) =>
           /\ last.outcome = "ok"
           /\ idle = 0 => (turns # <<>> /\ turns[Len(turns)] = last.appended)

\* The turns key expires exactly SessionTtl after the last add_turn.
ExpiresWithLastWrite ==
    /\ (last.op = "add_turn" /\ idle = 0) => turns_ttl = SessionTtl
    /\ turns # <<>> => (idle < SessionTtl /\ turns_ttl = SessionTtl - idle)
    /\ idle >= SessionTtl => turns = <<>>

\* The raw log becomes empty only at the moment SessionTtl has passed since
\* the last add_turn.
NoEarlyExpiry ==
    (turns # <<>> /\ turns' = <<>>) => (idle' = SessionTtl /\ idle = SessionTtl - 1)

\* C17: every add_turn, summarizing or not, leaves the turns key with the
\* full lifetime session_ttl: the raw turns expire together exactly
\* session_ttl after the last add_turn, and never while add_turn calls keep
\* arriving less than session_ttl apart.
C17_FullLifetimeAfterAddTurn ==
    []ExpiresWithLastWrite /\ [][NoEarlyExpiry]_vars

\* C17 witness: an add_turn that did not summarize found the key with part
\* of its lifetime spent, and an earlier one had summarized.
C17_Witness ==
    /\ last.op = "add_turn" /\ last.refreshed /\ ~last.summarized
    /\ summary # None /\ idle = 0
    /\ turns_ttl = SessionTtl /\ Len(turns) >= 2

-----------------------------------------------------------------------------
(* Part C.  The follow-up classifier and the query rewriter of             *)
(* ConversationManager (services/conversation.py), computed on the query   *)
(* strings (SpecRewrite).                                                  *)

MaxQueryWords == 3     \* the generated queries have at most this many words

\* re.match(pattern, s) is not None
re_match(pattern, s) == re_match_at(pattern, 1, s, 1)

RECURSIVE lstrip(_)
lstrip(s) ==
    IF s # "" /\ IsSpace(CharAt(s, 1)) THEN lstrip(SubSeq(s, 2, Len(s))) ELSE s

RECURSIVE rstrip(_)
rstrip(s) ==
    IF s # "" /\ IsSpace(CharAt(s, Len(s))) THEN rstrip(SubSeq(s, 1, Len(s) - 1)) ELSE s

\* str.strip()
strip(s) == rstrip(lstrip(s))

\* len(s.split()): the number of maximal runs of non-whitespace characters
WordCount(s) ==
    Cardinality({i \in 1..Len(s) :
                    /\ ~IsSpace(CharAt(s, i))
                    /\ (i = 1 \/ IsSpace(CharAt(s, i - 1)))})

\* The queries of SpecRewrite.
Vocabulary == {"and", "what", "was", "it", "2022", "revenue"}

RECURSIVE Join(_)
Join(words) ==
    IF words = <<>> THEN ""
    ELSE IF Len(words) = 1 THEN words[1]
    ELSE words[1] \o " " \o Join(Tail(words))

\* Every phrase of at most MaxQueryWords words of the vocabulary, with and
\* without a question mark.
Phrases == UNION { {Join(w) : w \in [1..n -> Vocabulary]} : n \in 0..MaxQueryWords }

GeneratedQueries == Phrases \cup {p \o "?" : p \in Phrases}

SampleQueries ==
    { "", "2022?", "  2023 ?? ", "What was total revenue in 2021?",
      "What was revenue and net income for the year?",
      "Compare it with 2020", "Compare it with Ford?", "vs 2020", "versus Ford",
      "and margins?", "And for 2023?", "What about net income?", "how about it?",
      "revenue?", "Revenue", "last year", "the previous quarter?", "in 2021",
      "How was it", "What was item 7?", "Is brand value rising?", "???" }

AllQueries == GeneratedQueries \cup SampleQueries

\* is_followup_query: followup_patterns, in the order of the list
followup_patterns ==
    << <<Alt({"and", "also", "what about", "how about"}), Sp>>,
       <<Alt({"for", "in", "about"}), Ws, D4>>,
       <<D4, Ws0, Q0, End>>,
       <<OptLitWs("the"), Alt({"previous", "next", "last", "this"}), Ws,
         Alt({"year", "quarter", "period"})>>,
       <<Alt({"what", "how"}), Ws, Alt({"about", "was"}), Ws,
         Alt({"that", "it", "this"})>>,
       <<Word, Ws0, Q0, End>> >>

\* for pattern in followup_patterns: if re.match(pattern, query_lower)
MatchesFollowupPattern(query) ==
    LET query_lower == strip(lower(query))
    IN  \E n \in 1..Len(followup_patterns) : re_match(followup_patterns[n], query_lower)

\* MatchesFollowupPattern of each query of the model, computed once.
FollowupPatternMatch == [q \in AllQueries |-> MatchesFollowupPattern(q)]

\* A short-query rule that stops at two words.
ShortQuestion_TwoWords(query) == WordCount(query) <= 2 /\ Contains(query, "?")

\* len(query.split()) <= 3 and '?' in query
ShortQuestion(query) == WordCount(query) <= 3 /\ Contains(query, "?")

\* ConversationManager.is_followup_query
is_followup_query(query) == FollowupPatternMatch[query] \/ ShortQuestion(query)

\* ---- the query rewriter ---------------------------------------------------

MinOf(S) == CHOOSE x \in S : \A y \in S : x <= y

StartsAt(s, i, w) == i + Len(w) - 1 <= Len(s) /\ SubSeq(s, i, i + Len(w) - 1) = w

FourDigitsAt(s, i) ==
    i + 3 <= Len(s) /\ \A m \in i..(i + 3) : IsDigit(CharAt(s, m))

\* re.search(r'\d{4}', s): the matched text, "" when there is no match.  The
\* group of r'(?:and\s+|for\s+|in\s+|about\s+)?(\d{4})' is the same text: a
\* match that starts at a connector still takes the first four digits.
FirstYear(s) ==
    LET at == {i \in 1..Len(s) : FourDigitsAt(s, i)}
    IN  IF at = {} THEN "" ELSE SubSeq(s, MinOf(at), MinOf(at) + 3)

\* The end of the match of a sequence of atoms at i, each \s+ taking its
\* whole run: 0 when there is no match.  atoms are literal alternatives
\* (sets of strings, exactly one of which can match) and "ws".
RECURSIVE PrefixEnd(_, _, _)
PrefixEnd(atoms, s, i) ==
    IF atoms = <<>> THEN i
    ELSE IF Head(atoms) = {"ws"}
    THEN LET n == RunLength(s, i, "s")
         IN  IF n = 0 THEN 0 ELSE PrefixEnd(Tail(atoms), s, i + n)
    ELSE LET ok == {w \in Head(atoms) : StartsAt(s, i, w)}
         IN  IF ok = {} THEN 0
             ELSE LET ends == {PrefixEnd(Tail(atoms), s, i + Len(w)) : w \in ok} \ {0}
                  IN  IF ends = {} THEN 0 ELSE MinOf(ends)

\* The number of question marks at the end of s.
RECURSIVE TrailingQuestionMarks(_)
TrailingQuestionMarks(s) ==
    IF s # "" /\ CharAt(s, Len(s)) = "?"
    THEN 1 + TrailingQuestionMarks(SubSeq(s, 1, Len(s) - 1)) ELSE 0

\* str.rstrip('?')
rstrip_question(s) == SubSeq(s, 1, Len(s) - TrailingQuestionMarks(s))

\* The group of (.+?)[\?]*$ matched from position e: the shortest non-empty
\* text from e after which only question marks follow.
LazyToEnd(s, e) ==
    LET rest == SubSeq(s, e, Len(s))
        cut  == rstrip_question(rest)
    IN  IF cut = "" THEN SubSeq(rest, 1, 1) ELSE cut

\* re.search(prefix + r'\s+(.+?)[\?]*$', s).group(1) as a one-element
\* sequence, None when there is no match.  s is stripped, so the text after
\* the whole whitespace run is not empty when the run is matched.
SearchTail(atoms, s) ==
    LET at == {i \in 1..Len(s) :
                  PrefixEnd(atoms, s, i) # 0 /\ PrefixEnd(atoms, s, i) <= Len(s)}
    IN  IF at = {} THEN None
        ELSE <<LazyToEnd(s, PrefixEnd(atoms, s, MinOf(at)))>>

\* comparison_patterns, without the common tail \s+(.+?)[\?]*$
comparison_patterns ==
    << << {"compare"}, {"ws"}, {"it", "that", "this"}, {"ws"},
          {"with", "to", "against"}, {"ws"} >>,
       << {"vs", "versus"}, {"ws"} >>,
       << {"and"}, {"ws"} >> >>

\* r'^(.+?)\s*\?*$': the group, as a one-element sequence, None for "".
BareTopic(s) ==
    IF s = "" THEN None
    ELSE LET cut == rstrip(rstrip_question(s))
         IN  IF cut = "" THEN <<SubSeq(s, 1, 1)>> ELSE <<cut>>

\* topic_patterns: the group of each pattern that matches, in order
TopicMatches(s) ==
    LET a == SearchTail(<< {"what about", "how about"}, {"ws"} >>, s)
        b == BareTopic(s)
    IN  (IF a = None THEN <<>> ELSE a) \o (IF b = None THEN <<>> ELSE b)

\* _extract_main_topic: financial_keywords, in priority order
financial_keywords ==
    << "net income", "total revenue", "revenue", "income", "profit", "loss",
       "earnings", "margin", "assets", "liabilities", "cash flow", "dividend",
       "share price", "eps", "ebitda", "operating income", "gross profit" >>

IsTopicChar(c) == IsLetter(c) \/ IsSpace(c)

\* \s+(?:was|is|in|for) or \s+(?:was|is)\s+\$ can be matched at position i
FollowedBy(s, i, words, dollar) ==
    \E n \in 1..RunLength(s, i, "s") : \E w \in words :
        /\ StartsAt(s, i + n, w)
        /\ dollar => \E m \in 1..RunLength(s, i + n + Len(w), "s") :
                         StartsAt(s, i + n + Len(w) + m, "$")

\* r'(?:the|what)\s+([a-zA-Z\s]+?)(?:\s+(?:was|is|in|for))' with the article
\* w at position i: the pairs <<n, g>> of a length n of the first \s+ and a
\* length g of the group with which the pattern matches.
ArticleGroups(s, i, w) ==
    {x \in (1..RunLength(s, i + Len(w), "s")) \X (1..Len(s)) :
        /\ i + Len(w) + x[1] + x[2] - 1 <= Len(s)
        /\ \A m \in (i + Len(w) + x[1])..(i + Len(w) + x[1] + x[2] - 1) :
               IsTopicChar(CharAt(s, m))
        /\ FollowedBy(s, i + Len(w) + x[1] + x[2], {"was", "is", "in", "for"}, FALSE)}

\* The positions and articles at which the pattern matches.
ArticleStarts(s) ==
    {x \in (1..Len(s)) \X {"the", "what"} :
        StartsAt(s, x[1], x[2]) /\ ArticleGroups(s, x[1], x[2]) # {}}

\* The engine takes the longest run for the first \s+, then the shortest
\* group: the text of the group that starts at b + n.
ArticleGroupText(s, b, n, gs) ==
    SubSeq(s, b + n, b + n + MinOf({x[2] : x \in {y \in gs : y[1] = n}}) - 1)

ArticleGroupAt(s, st, gs) ==
    ArticleGroupText(s, st[1] + Len(st[2]), SetMax({x[1] : x \in gs}), gs)

ArticleMatchAt(s, st) == ArticleGroupAt(s, st, ArticleGroups(s, st[1], st[2]))

\* The group of r'(?:the|what)\s+([a-zA-Z\s]+?)(?:\s+(?:was|is|in|for))'
\* found by re.search (the leftmost start), as a one-element sequence, or
\* None.
NounAfterArticle(s) ==
    IF ArticleStarts(s) = {} THEN None
    ELSE <<ArticleMatchAt(s, CHOOSE x \in ArticleStarts(s) :
                                 \A y \in ArticleStarts(s) : x[1] <= y[1])>>

\* r'([a-zA-Z\s]+?)\s+(?:was|is)\s+\$' from position i: the lengths of the
\* group with which the pattern matches.
AmountGroups(s, i) ==
    {g \in 1..Len(s) :
        /\ i + g - 1 <= Len(s)
        /\ \A m \in i..(i + g - 1) : IsTopicChar(CharAt(s, m))
        /\ FollowedBy(s, i + g, {"was", "is"}, TRUE)}

AmountStarts(s) == {i \in 1..Len(s) : AmountGroups(s, i) # {}}

AmountMatchAt(s, i) == SubSeq(s, i, i + MinOf(AmountGroups(s, i)) - 1)

\* The group of r'([a-zA-Z\s]+?)\s+(?:was|is)\s+\$' found by re.search.
NounBeforeAmount(s) ==
    IF AmountStarts(s) = {} THEN None
    ELSE <<AmountMatchAt(s, MinOf(AmountStarts(s)))>>

\* for keyword in financial_keywords: if keyword in text_to_search
FoundKeywords(text_to_search) ==
    {k \in 1..Len(financial_keywords) : Contains(text_to_search, financial_keywords[k])}

\* noun_patterns: the group of each pattern that matches query.lower(), in
\* order (None is the empty sequence)
NounMatches(query_lower) == NounAfterArticle(query_lower) \o NounBeforeAmount(query_lower)

\* if len(topic) > 2 and topic not in ['what', 'the', 'it']
NounTopics(nouns) ==
    {n \in 1..Len(nouns) :
        Len(strip(nouns[n])) > 2 /\ strip(nouns[n]) \notin {"what", "the", "it"}}

MainTopicOf(found, nouns) ==
    IF found # {} THEN financial_keywords[MinOf(found)]
    ELSE IF NounTopics(nouns) # {} THEN strip(nouns[MinOf(NounTopics(nouns))])
    ELSE ""

\* ConversationManager._extract_main_topic: "" when nothing is found
extract_main_topic(query, response) ==
    MainTopicOf(FoundKeywords(lower(query \o " " \o response)),
                NounMatches(lower(query)))

ConversationTurnOf(user_query, ai_response) ==
    [user_query |-> user_query, ai_response |-> ai_response]

SampleTurns ==
    << ConversationTurnOf("What was revenue in 2022?", "Revenue was $81 billion."),
       ConversationTurnOf("Describe the supply chain risks", "Several risks exist."),
       ConversationTurnOf("How many employees in 2021?", "About 99,290."),
       ConversationTurnOf("What is the headcount for Tesla", "It is large.") >>

\* _extract_main_topic of each sample turn, computed once.
MainTopic ==
    [t \in {SampleTurns[i] : i \in 1..Len(SampleTurns)} |->
        extract_main_topic(t.user_query, t.ai_response)]

\* str.replace(old, new) for a non-empty old
RECURSIVE replace(_, _, _)
replace(s, old, new) ==
    IF Len(s) < Len(old) THEN s
    ELSE IF StartsAt(s, 1, old)
    THEN new \o replace(SubSeq(s, Len(old) + 1, Len(s)), old, new)
    ELSE SubSeq(s, 1, 1) \o replace(SubSeq(s, 2, Len(s)), old, new)

\* Case 1 and case 3: the rewrite for a query that names a year
YearRewrite(last_turn, last_query, new_year, joiner) ==
    LET main_topic == MainTopic[last_turn]
        prev_year  == FirstYear(last_query)
    IN  IF main_topic # "" THEN "What was the " \o main_topic \o " in " \o new_year \o "?"
        ELSE IF prev_year # "" THEN replace(last_query, prev_year, new_year)
        ELSE last_query \o joiner \o new_year

\* Case 2: the rewrite for the first comparison pattern that matches
ComparisonRewrite(last_turn, last_query, comparison_target) ==
    LET main_topic == MainTopic[last_turn]
    IN  IF main_topic # "" /\ comparison_target # ""
        THEN IF FourDigitsAt(comparison_target, 1)
             THEN "Compare the " \o main_topic
                      \o " between the previous year mentioned and " \o comparison_target
             ELSE "Compare the " \o main_topic \o " with " \o comparison_target
        ELSE last_query \o " compared to " \o comparison_target

\* Case 4: a topic is used when it is longer than 2 characters and no stopword
UsableTopic(new_topic) ==
    Len(new_topic) > 2 /\ new_topic \notin {"it", "that", "this", "then", "what"}

TopicRewrite(last_query, new_topic) ==
    LET year == FirstYear(last_query)
    IN  IF year # "" THEN "What was the " \o new_topic \o " in " \o year \o "?"
        ELSE "What was the " \o new_topic \o "?"

\* A rewriter that takes its context from the oldest turn of the history.
LastTurn_Oldest(history) == history[1]

\* last_turn = history[-1]
LastTurn(history) == history[Len(history)]

\* The body of rewrite_query_with_context after its guard.
Rewritten(current_query, history) ==
    LET last_turn     == LastTurn(history)
        last_query    == last_turn.user_query
        current_lower == strip(lower(current_query))
        new_year      == FirstYear(current_lower)
        compared      == {n \in 1..Len(comparison_patterns) :
                             SearchTail(comparison_patterns[n], current_lower) # None}
        topics        == TopicMatches(current_lower)
        usable        == {n \in 1..Len(topics) : UsableTopic(strip(topics[n]))}
    IN  IF new_year # ""
        THEN YearRewrite(last_turn, last_query, new_year, " for ")
        ELSE IF compared # {}
        THEN ComparisonRewrite(last_turn, last_query,
                 strip(SearchTail(comparison_patterns[MinOf(compared)], current_lower)[1]))
        ELSE IF re_match(<<D4, Ws0, Q0, End>>, current_lower)
        THEN YearRewrite(last_turn, last_query, SubSeq(current_lower, 1, 4), " in ")
        ELSE IF usable # {}
        THEN TopicRewrite(last_query, strip(topics[MinOf(usable)]))
        ELSE rstrip_question(last_query) \o " and " \o current_query

\* A rewriter that rewrites every query once there is a history.
rewrite_query_with_context_Always(current_query, history) ==
    IF history = <<>> THEN current_query ELSE Rewritten(current_query, history)

\* ConversationManager.rewrite_query_with_context
rewrite_query_with_context(current_query, history) ==
    IF history = <<>> \/ ~is_followup_query(current_query) THEN current_query
    ELSE Rewritten(current_query, history)

\* ---- the queries and histories of SpecRewrite -----------------------------

Histories ==
    {<<>>} \cup {<<SampleTurns[i]>> : i \in 1..Len(SampleTurns)}
           \cup {<<SampleTurns[i], SampleTurns[j]>> : i, j \in 1..2}

\* POST /conversation/test-rewrite: the handler classifies the query and
\* rewrites it with the history of the request.
TestQueryRewrite(query, history) ==
    /\ rq = NoOp
    /\ rq' = [op |-> "test_rewrite", query |-> query, history |-> history]
    /\ rs' = [op |-> "test_rewrite",
              is_followup |-> is_followup_query(query),
              rewritten_query |-> rewrite_query_with_context(query, history)]
    /\ UNCHANGED <<memvars, concvars, keyvars>>

InitRewrite == InitRetrieve

\* One request is made in a behaviour.
NextRewrite ==
    /\ rq = NoOp
    /\ \/ \E query \in GeneratedQueries, history \in {<<>>, <<SampleTurns[1]>>} :
              TestQueryRewrite(query, history)
       \/ \E query \in SampleQueries, history \in Histories :
              TestQueryRewrite(query, history)

SpecRewrite == InitRewrite /\ [][NextRewrite]_vars

\* C19: rewrite_query_with_context returns the current query unchanged when
\* the history is empty or the classifier says the query is no follow-up; a
\* rewrite is produced only when the classifier says true and the history
\* holds at least one turn.
C19_RewriteOnlyFollowupsWithHistory ==
    rs.op = "test_rewrite" =>
        /\ (rq.history = <<>> \/ ~rs.is_followup) => rs.rewritten_query = rq.query
        /\ rs.rewritten_query # rq.query => (rs.is_followup /\ rq.history # <<>>)

\* C19 witness: a query that names a year but is no follow-up was asked
\* with a history, and came back unchanged.
C19_Witness ==
    /\ rs.op = "test_rewrite"
    /\ rq.history # <<>> /\ ~rs.is_followup
    /\ FirstYear(rq.query) # ""
    /\ rs.rewritten_query = rq.query

\* A bare year query: four digits, then question marks only.
BareYear(query) ==
    /\ Len(query) >= 4
    /\ \A i \in 1..4 : IsDigit(CharAt(query, i))
    /\ \A i \in 5..Len(query) : CharAt(query, i) = "?"

\* C20: is_followup_query is True exactly when the query matches one of the
\* follow-up heuristics or has at most 3 words and contains "?": a bare year
\* query is a follow-up, a query of at most 3 words with "?" is a follow-up,
\* the empty query is not, and a complete question that matches no heuristic
\* ("What was total revenue in 2021?") is not.
C20_FollowupClassifier ==
    rs.op = "test_rewrite" =>
        /\ rs.is_followup <=>
               \/ FollowupPatternMatch[rq.query]
               \/ (WordCount(rq.query) <= 3 /\ Contains(rq.query, "?"))
        /\ BareYear(rq.query) => rs.is_followup
        /\ (WordCount(rq.query) <= 3 /\ Contains(rq.query, "?")) => rs.is_followup
        /\ rq.query = "" => ~rs.is_followup
        /\ rq.query = "What was total revenue in 2021?" => ~rs.is_followup
        /\ (WordCount(rq.query) > 3 /\ ~FollowupPatternMatch[rq.query]) => ~rs.is_followup

\* C20 witness: a query of exactly three words with "?" that matches none of
\* the patterns was classified as a follow-up.
C20_Witness ==
    /\ rs.op = "test_rewrite"
    /\ WordCount(rq.query) = 3 /\ Contains(rq.query, "?")
    /\ ~FollowupPatternMatch[rq.query]
    /\ rs.is_followup

-----------------------------------------------------------------------------
(* Turn accounting of the summary buffer memory over add_turn and          *)
(* force-summarize (Spec).                                                 *)

\* C21: turn conservation.  Whatever add_turn and force-summarize operations
\* ran since the session was created or last cleared, the summary's
\* turn_count (0 without a summary) plus the length of the raw log is the
\* number of add_turn calls made: no turn leaves the raw log uncounted.
C21_TurnConservation ==
    SummaryTurnCount(summary) + Len(turns) = added

\* The raw log a step's summarization started from: the log with the turn
\* the step appended, when the step is an add_turn.
RawBefore == IF added' = added + 1 THEN Append(turns, PushedTurn) ELSE turns

\* The max_recent_turns in force while the step's summarization ran.
KeptBy == IF added' = added + 1 THEN max_recent_turns ELSE 1

\* C22: when a step performs a summarization, the turns summarized are all
\* raw turns except the last max_recent_turns, the raw log afterwards is
\* exactly those last max_recent_turns turns in their order and unchanged,
\* and a turn the step added is among them.
C22_SummarizesAllButKept ==
    [][ (last'.op \in {"rag_query", "force"} /\ last'.outcome = "ok"
            /\ last'.summarized /\ summary' # summary) =>
          /\ Len(RawBefore) > KeptBy
          /\ turns' = SubSeq(RawBefore, Len(RawBefore) - KeptBy + 1, Len(RawBefore))
          /\ summary'[1].text[Len(summary'[1].text)]
                 = TurnIds(SubSeq(RawBefore, 1, Len(RawBefore) - KeptBy))
          /\ summary'[1].turn_count
                 = SummaryTurnCount(summary) + Len(RawBefore) - KeptBy
          /\ added' = added + 1 => PushedTurn.id = added' ]_vars

IsPrefix(a, b) == Len(a) <= Len(b) /\ SubSeq(b, 1, Len(a)) = a

C24_ForceSummarizeRestores ==
    [][ max_recent_turns' = max_recent_turns ]_vars

-----------------------------------------------------------------------------
(* Properties of an add_turn interleaved with a clear or a reader          *)
(* (SpecRace).                                                             *)

SummarizedIds(sm) ==
    IF sm = None THEN {} ELSE UNION {sm[1].text[i] : i \in 1..Len(sm[1].text)}

\* C25: turns removed by clear_session never reappear.  When the clear ran
\* while an add_turn had read the history and not finished its
\* summarization, then once both have completed neither the raw log nor the
\* summary holds a turn that was stored before the clear.
C25_ClearedNeverReappears ==
    (AllDone /\ last.op = "clear" /\ last.in_flight) =>
        \A id \in TurnIds(turns) \cup SummarizedIds(summary) : id > last.upto

\* C26: compaction is atomic for readers.  A get_history that reads the log
\* while an add_turn is at its summarization returns the log as that
\* add_turn read it, or the complete kept log, never an empty or partly
\* rebuilt one.
C26_CompactionAtomicForReaders ==
    (last.op = "get_history" /\ last.compacting) =>
        last.recent_turns \in {last.before, TurnsToKeep(last.before, max_recent_turns)}

-----------------------------------------------------------------------------
(* Key lifetimes over add_turn and force-summarize (SpecExpiry).           *)

\* C27: a session's summary never expires while its raw turn log is live.
\* The summary record of the session goes away only when the raw log is
\* gone as well.
C27_SummaryOutlivesRawLog ==
    [][ (summary # None /\ summary' = None) => turns' = <<>> ]_vars

-----------------------------------------------------------------------------
(* The boost analyzer on query strings (SpecAnalyze): the call of           *)
(* analyze_query_for_subsections that opens retrieve, over every phrase of *)
(* a vocabulary of boost keywords.                                         *)

AnalyzerVocabulary == {"the", "tax", "credits", "compliance", "risk", "factors"}

AnalyzerQueries ==
    UNION { {Join(w) : w \in [1..n -> AnalyzerVocabulary]} : n \in 0..MaxQueryWords }

\* retrieve: query_analysis = analyze_query_for_subsections(query_text)
AnalyzeQuery(query_text) ==
    /\ rq = NoOp
    /\ rq' = [op |-> "analyze", query_text |-> query_text]
    /\ rs' = [op |-> "analyze",
              query_analysis |-> analyze_query_for_subsections(query_text)]
    /\ UNCHANGED <<memvars, concvars, keyvars>>

NextAnalyze ==
    /\ rq = NoOp
    /\ \E query_text \in AnalyzerQueries : AnalyzeQuery(query_text)

SpecAnalyze == InitRetrieve /\ [][NextAnalyze]_vars

\* The hits of a category in a query: keywords contained plus patterns found.
KeywordHits(config, query_lower) ==
    Cardinality({i \in 1..Len(config.keywords) :
                    Contains(query_lower, config.keywords[i])})

PatternHits(config, query_lower) ==
    Cardinality({i \in 1..Len(config.subsection_patterns) :
                    re_search(config.subsection_patterns[i], query_lower)})

\* The entry of a category in the analysis, as a set of at most one record.
ActiveBoost(analysis, category) ==
    {analysis.boosts[i] : i \in {j \in 1..Len(analysis.boosts) :
                                    analysis.boosts[j].category = category}}

\* C28: a category with at least one keyword or pattern hit is active, with
\* its base boost when its keyword hits plus pattern hits are exactly one
\* and with min(base * 1.2, 2.0) when they are more than one; a category
\* without a hit is not active.
C28_BoostByTotalHits ==
    rs.op = "analyze" =>
        \A c \in 1..Len(boost_mappings) :
            LET config == boost_mappings[c]
                hits   == KeywordHits(config, lower(rq.query_text))
                              + PatternHits(config, lower(rq.query_text))
                active == ActiveBoost(rs.query_analysis, config.category)
            IN  /\ hits = 0 => active = {}
                /\ hits >= 1 =>
                       /\ Cardinality(active) = 1
                       /\ \A b \in active :
                              b.boost_score =
                                  IF hits = 1 THEN config.boost_score
                                  ELSE Min((config.boost_score * MultiMatchFactor)
                                               \div BoostUnit, BoostCap)

-----------------------------------------------------------------------------
(* Properties of the query rewriter (SpecRewrite), continued.              *)

ComparisonTarget(query) ==
    IF \E n \in 1..Len(comparison_patterns) :
           SearchTail(comparison_patterns[n], strip(lower(query))) # None
    THEN strip(SearchTail(comparison_patterns[
                   MinOf({n \in 1..Len(comparison_patterns) :
                             SearchTail(comparison_patterns[n], strip(lower(query))) # None})],
               strip(lower(query)))[1])
    ELSE ""

\* C30: a follow-up that matches a comparison pattern ("compare it with X",
\* "vs X", "and X") whose target X is a year, asked after a turn from which
\* a topic can be extracted, is rewritten to the between-years comparison
\* of that topic and year.
C30_BetweenYearsComparison ==
    (/\ rs.op = "test_rewrite" /\ rs.is_followup /\ rq.history # <<>>
     /\ FourDigitsAt(ComparisonTarget(rq.query), 1)
     /\ MainTopic[LastTurn(rq.history)] # "") =>
        rs.rewritten_query =
            "Compare the " \o MainTopic[LastTurn(rq.history)]
                \o " between the previous year mentioned and "
                \o ComparisonTarget(rq.query)

====
